---- MODULE Spec2Model ----
(***************************************************************************)
(* BLE error-estimation pipeline (CppVersion): the adaptive Kalman filter, *)
(* the anchor state, the fix evaluator (TagSystem), the update             *)
(* orchestrator (update_anchors_from_tag_data) and the MQTT message        *)
(* handler (on_message).                                                   *)
(*                                                                         *)
(* Numbers.  Every C++ `float` of the program is a value of the binary     *)
(* floating-point arithmetic defined below: a signed mantissa of MantBits  *)
(* bits and an exponent, with round-to-nearest-even after every operation, *)
(* infinities and NaN.  The program's floats have 24 mantissa bits; the    *)
(* model keeps the same arithmetic at a narrower mantissa so that products *)
(* of two mantissas fit TLC's integers.  Zero carries no sign (the sign of *)
(* a zero only decides the sign of an infinity, which nothing here reads). *)
(* Intermediate results the C++ keeps in double are rounded like floats.   *)
(***************************************************************************)
EXTENDS Integers, Sequences, FiniteSets, TLC

\* ------------------------------------------------------------------------
\* Bounds of the model
\* ------------------------------------------------------------------------

\* Mantissa width of the model's floating-point numbers.
MantBits == 12

\* ------------------------------------------------------------------------
\* Floating-point arithmetic (the C++ float operators + - * / sqrt < <= ...)
\* ------------------------------------------------------------------------

Pow2(k) == 2 ^ k

\* The number of bits of x, 0 <= x < 2^31, by halving the range.
BitLen4(x) ==
    IF x < 4 THEN (IF x < 2 THEN x ELSE 2) ELSE (IF x < 8 THEN 3 ELSE 4)

BitLen8(x) == IF x < 16 THEN BitLen4(x) ELSE 4 + BitLen4(x \div 16)

BitLen16(x) == IF x < 256 THEN BitLen8(x) ELSE 8 + BitLen8(x \div 256)

BitLen(x) == IF x < 65536 THEN BitLen16(x) ELSE 16 + BitLen16(x \div 65536)

Abs(x) == IF x < 0 THEN -x ELSE x

Sgn(x) == IF x < 0 THEN -1 ELSE IF x > 0 THEN 1 ELSE 0

\* Largest and smallest binary exponent of a normal float (FLT_MAX_EXP - 1 and
\* FLT_MIN_EXP - 1): beyond the first a result is an infinity, below the second
\* it is flushed to zero.
FltMaxExp == 127

FltMinExp == -126

FNaN == [k |-> "nan", m |-> 0, e |-> 0]

FInf(s) == [k |-> "inf", m |-> s, e |-> 0]

FZero == [k |-> "num", m |-> 0, e |-> 0]

IsNaN(a) == a.k = "nan"

IsInf(a) == a.k = "inf"

\* std::isfinite
IsFinite(a) == a.k = "num"

IsZero(a) == a.k = "num" /\ a.m = 0

\* The float s * m1 * 2^e1 for a mantissa m1 of MantBits bits: an infinity
\* above the largest exponent, zero below the smallest.
FPack(s, m1, e1) ==
    IF e1 + MantBits - 1 > FltMaxExp THEN FInf(s)
    ELSE IF e1 + MantBits - 1 < FltMinExp THEN FZero
    ELSE [k |-> "num", m |-> s * m1, e |-> e1]

\* The rounded mantissa q1 at exponent e1: rounding up may carry into one more
\* bit.
FCarry(s, q1, e1) ==
    IF q1 = Pow2(MantBits) THEN FPack(s, Pow2(MantBits - 1), e1 + 1)
    ELSE FPack(s, q1, e1)

\* Round to nearest, ties to even: the quotient q is rounded up when the
\* remainder r is above half, or at half with q odd (or with bits dropped
\* before).
RoundUp(q, r, half, sticky) ==
    \/ r > half
    \/ r = half /\ (sticky \/ q % 2 = 1)

\* The quotient q of the magnitude by 2^sh, rounded.
FRoundQuot(q, r, half, sticky) == IF RoundUp(q, r, half, sticky) THEN q + 1 ELSE q

\* FRound for a magnitude that is sh bits longer than a mantissa (sh <= 0:
\* it fits, and is scaled up).
FRoundShift(s, mag, ex, sticky, sh) ==
    IF sh <= 0 THEN FPack(s, mag * Pow2(-sh), ex + sh)
    ELSE FCarry(s, FRoundQuot(mag \div Pow2(sh), mag % Pow2(sh), Pow2(sh - 1), sticky),
                ex + sh)

\* The float nearest to s * mag * 2^ex (s = +1 or -1, mag >= 0); `sticky` says
\* that the exact value lies strictly above mag * 2^ex in magnitude (bits were
\* dropped before), which only matters for a tie.
FRound(s, mag, ex, sticky) ==
    IF mag = 0 THEN FZero
    ELSE FRoundShift(s, mag, ex, sticky, BitLen(mag) - MantBits)

\* An integer literal, or an int converted to float.
FInt(i) == FRound(IF i < 0 THEN -1 ELSE 1, Abs(i), 0, FALSE)

FNeg(a) == IF a.k = "nan" THEN a ELSE [a EXCEPT !.m = -a.m]

\* The float nearest to the exact integer sum * 2^ex.
FAddExact(sum, ex) == FRound(IF sum < 0 THEN -1 ELSE 1, Abs(sum), ex, FALSE)

\* hi + lo for finite non-zero floats with hi.e >= lo.e: lo is absorbed when
\* it lies more than a mantissa (and two guard bits) below hi.
FAddAligned(hi, lo) ==
    IF hi.e - lo.e >= MantBits + 2 THEN hi
    ELSE FAddExact(hi.m * Pow2(hi.e - lo.e) + lo.m, lo.e)

\* a + b
FAdd(a, b) ==
    IF IsNaN(a) \/ IsNaN(b) THEN FNaN
    ELSE IF IsInf(a) /\ IsInf(b) THEN (IF a.m = b.m THEN a ELSE FNaN)
    ELSE IF IsInf(a) THEN a
    ELSE IF IsInf(b) THEN b
    ELSE IF a.m = 0 THEN b
    ELSE IF b.m = 0 THEN a
    ELSE FAddAligned(IF a.e >= b.e THEN a ELSE b, IF a.e >= b.e THEN b ELSE a)

\* a - b
FSub(a, b) == FAdd(a, FNeg(b))

\* a * b
FMul(a, b) ==
    IF IsNaN(a) \/ IsNaN(b) THEN FNaN
    ELSE IF IsInf(a) \/ IsInf(b)
         THEN (IF a.m = 0 \/ b.m = 0 THEN FNaN ELSE FInf(Sgn(a.m) * Sgn(b.m)))
    ELSE IF a.m = 0 \/ b.m = 0 THEN FZero
    ELSE FRound(Sgn(a.m) * Sgn(b.m), Abs(a.m) * Abs(b.m), a.e + b.e, FALSE)

\* The float nearest to s * (num / den) * 2^ex for integers num >= 0, den > 0.
FDivExact(s, num, den, ex) == FRound(s, num \div den, ex, num % den # 0)

\* a / b
FDiv(a, b) ==
    IF IsNaN(a) \/ IsNaN(b) THEN FNaN
    ELSE IF IsInf(a) THEN (IF IsInf(b) THEN FNaN
                           ELSE FInf(a.m * (IF b.m < 0 THEN -1 ELSE 1)))
    ELSE IF IsInf(b) THEN FZero
    ELSE IF b.m = 0 THEN (IF a.m = 0 THEN FNaN ELSE FInf(Sgn(a.m)))
    ELSE IF a.m = 0 THEN FZero
    ELSE FDivExact(Sgn(a.m) * Sgn(b.m), Abs(a.m) * Pow2(MantBits + 2), Abs(b.m),
                   a.e - b.e - (MantBits + 2))

\* floor(sqrt(x)) for an integer x >= 0, by bisection on [lo, hi).
RECURSIVE ISqrtIn(_, _, _)
ISqrtIn(x, lo, hi) ==
    IF hi - lo <= 1 THEN lo
    ELSE LET mid == (lo + hi) \div 2
         IN  IF mid * mid <= x THEN ISqrtIn(x, mid, hi) ELSE ISqrtIn(x, lo, mid)

ISqrt(x) == ISqrtIn(x, 0, 46341)

\* The float nearest to sqrt(big) * 2^ex, root being floor(sqrt(big)).
FSqrtRound(root, big, ex) == FRound(1, root, ex, root * root # big)

\* sqrt(m0 * 2^e0) for m0 > 0 and e0 even: m0 is scaled up by 2^sh (sh even)
\* so that the integer root has more bits than a mantissa.
FSqrtEven(m0, e0, sh) == FSqrtRound(ISqrt(m0 * Pow2(sh)), m0 * Pow2(sh), (e0 - sh) \div 2)

\* std::sqrt
FSqrt(a) ==
    IF IsNaN(a) THEN FNaN
    ELSE IF IsInf(a) THEN (IF a.m > 0 THEN a ELSE FNaN)
    ELSE IF a.m = 0 THEN FZero
    ELSE IF a.m < 0 THEN FNaN
    ELSE FSqrtEven(IF a.e % 2 # 0 THEN 2 * a.m ELSE a.m,
                   IF a.e % 2 # 0 THEN a.e - 1 ELSE a.e,
                   IF MantBits % 2 = 0 THEN MantBits + 2 ELSE MantBits + 3)

\* a < b (false when either is NaN)
FLt(a, b) ==
    IF IsNaN(a) \/ IsNaN(b) THEN FALSE
    ELSE IF IsInf(a) THEN a.m < 0 /\ ~(IsInf(b) /\ b.m < 0)
    ELSE IF IsInf(b) THEN b.m > 0
    ELSE IF Sgn(a.m) # Sgn(b.m) THEN Sgn(a.m) < Sgn(b.m)
    ELSE IF a.m = 0 THEN FALSE
    ELSE IF a.e # b.e THEN (IF a.m > 0 THEN a.e < b.e ELSE a.e > b.e)
    ELSE a.m < b.m

\* a == b (false when either is NaN)
FEq(a, b) == ~IsNaN(a) /\ ~IsNaN(b) /\ a = b

FLe(a, b) == FLt(a, b) \/ FEq(a, b)

FGt(a, b) == FLt(b, a)

FGe(a, b) == FLe(b, a)

\* std::max(a, b) == (a < b) ? b : a
FMax(a, b) == IF FLt(a, b) THEN b ELSE a

\* The float nearest to the decimal literal num/den.
FLit(num, den) == FDiv(FInt(num), FInt(den))

\* std::pow(x, 2)
FSq(x) == FMul(x, x)

\* std::accumulate(begin, end, acc): the left fold of + over the sequence (a
\* NaN accumulator stays NaN whatever is added to it).
RECURSIVE FSum(_, _)
FSum(xs, acc) ==
    IF xs = << >> \/ IsNaN(acc) THEN acc ELSE FSum(Tail(xs), FAdd(acc, Head(xs)))

\* The sum of pow(x - mean, 2) over the sequence, accumulated left to right.
RECURSIVE FSumSqDev(_, _, _)
FSumSqDev(xs, mean, acc) ==
    IF xs = << >> \/ IsNaN(acc) THEN acc
    ELSE FSumSqDev(Tail(xs), mean, FAdd(acc, FSq(FSub(Head(xs), mean))))

\* The clamp value 1e-6f of std::max(d, 1e-6f).
SafeDist == FLit(1, 1000000)

\* std::log10 on the ratios safe_d / d_0 the model's distances produce: the
\* clamp value and the distances 1, 9, 10 and 100 (log10(9) rounded to a float).
Log10(x) ==
    CASE x = SafeDist  -> FInt(-6)
      [] x = FInt(1)   -> FZero
      [] x = FInt(9)   -> FLit(3817, 4000)
      [] x = FInt(10)  -> FInt(1)
      [] x = FInt(100) -> FInt(2)

\* ------------------------------------------------------------------------
\* KalmanFilter (kalman.h, kalman.cpp)
\* ------------------------------------------------------------------------

min_required_points == 5

max_buffer == 50

\* const float alpha = 0.1f
alpha == FLit(1, 10)

\* const float beta = 0.8f
beta == FLit(4, 5)

\* float d_0 = 1.0
d_0 == FInt(1)

\* The member initialisers of KalmanFilter: Q, P, sigma and the empty windows.
KalmanInit ==
    [Q00 |-> FSq(FLit(1, 400)), Q01 |-> FZero,
     Q10 |-> FZero,             Q11 |-> FSq(FLit(1, 10000)),
     P00 |-> FInt(1),           P01 |-> FZero,
     P10 |-> FZero,             P11 |-> FLit(1, 10),
     sigma |-> FInt(4),
     residuals |-> << >>,
     rssi_vals |-> << >>]

\* KalmanFilter::computeResidualVariance
computeResidualVariance(residuals) ==
    IF Len(residuals) < min_required_points THEN FSq(FLit(1, 400))
    ELSE LET mean == FDiv(FSum(residuals, FZero), FInt(Len(residuals)))
             var  == FSumSqDev(residuals, mean, FZero)
         IN  FDiv(var, FInt(Len(residuals)))

\* KalmanFilter::computeRSSIStdDev
computeRSSIStdDev(rssi_vals) ==
    IF Len(rssi_vals) < min_required_points THEN FInt(4)
    ELSE LET mean == FDiv(FSum(rssi_vals, FZero), FInt(Len(rssi_vals)))
             var  == FSumSqDev(rssi_vals, mean, FZero)
         IN  FSqrt(FDiv(var, FInt(Len(rssi_vals))))

\* A window that drops the newest entry on overflow.
PushTrimNewest(window, v) ==
    LET w == Append(window, v)
    IN  IF Len(w) > max_buffer THEN SubSeq(w, 1, max_buffer) ELSE w

\* push_back(v), then erase(begin()) when the window exceeds max_buffer.
PushTrim(window, v) ==
    LET w == Append(window, v)
    IN  IF Len(w) > max_buffer THEN Tail(w) ELSE w

\* The sigma of a step: beta * stddev once the RSSI window (the new sample
\* included) holds min_required_points samples, the old sigma before.
AdaptSigma(kf, rssi_vals) ==
    IF Len(rssi_vals) >= min_required_points
    THEN FMul(beta, computeRSSIStdDev(rssi_vals))
    ELSE kf.sigma

\* A Q recomputed one residual early.
AdaptQEarly(kf, resid_var) ==
    IF Len(kf.residuals) >= min_required_points - 1
    THEN [Q00 |-> FMul(alpha, resid_var), Q01 |-> kf.Q01,
          Q10 |-> kf.Q10, Q11 |-> FMul(alpha, FDiv(resid_var, FInt(100)))]
    ELSE [Q00 |-> kf.Q00, Q01 |-> kf.Q01, Q10 |-> kf.Q10, Q11 |-> kf.Q11]

\* The Q of a step: alpha * resid_var (and a hundredth of it) once the
\* residual window holds min_required_points residuals, the old Q before.
AdaptQ(kf, resid_var) ==
    IF Len(kf.residuals) >= min_required_points
    THEN [Q00 |-> FMul(alpha, resid_var), Q01 |-> kf.Q01,
          Q10 |-> kf.Q10, Q11 |-> FMul(alpha, FDiv(resid_var, FInt(100)))]
    ELSE [Q00 |-> kf.Q00, Q01 |-> kf.Q01, Q10 |-> kf.Q10, Q11 |-> kf.Q11]

\* P{i+1|i} = P{i|i} + Q
PredictP(kf, Q) ==
    [P00 |-> FAdd(kf.P00, Q.Q00), P01 |-> FAdd(kf.P01, Q.Q01),
     P10 |-> FAdd(kf.P10, Q.Q10), P11 |-> FAdd(kf.P11, Q.Q11)]

\* H = {1, X}, X = -10 * log10(max(d_val, 1e-6) / d_0).
MeasurementH(d_val) ==
    [H0 |-> FInt(1),
     H1 |-> FMul(FInt(-10), Log10(FDiv(FMax(d_val, SafeDist), d_0)))]

\* r_val - H x
Residual(H, RSSI0_i, n_i, r_val) ==
    FSub(r_val, FAdd(FMul(H.H0, RSSI0_i), FMul(H.H1, n_i)))

\* The innovation variance S = H P H^T + sigma^2.
InnovationS(P, H, sigma) ==
    FAdd(FAdd(FMul(H.H0, FAdd(FMul(P.P00, H.H0), FMul(P.P01, H.H1))),
              FMul(H.H1, FAdd(FMul(P.P10, H.H0), FMul(P.P11, H.H1)))),
         FSq(sigma))

\* The Kalman gain K = P H^T / S.
Gain(P, H, S) ==
    [K0 |-> FDiv(FAdd(FMul(P.P00, H.H0), FMul(P.P01, H.H1)), S),
     K1 |-> FDiv(FAdd(FMul(P.P10, H.H0), FMul(P.P11, H.H1)), S)]

\* I - K H
IminusKH(K, H) ==
    [I00 |-> FSub(FInt(1), FMul(K.K0, H.H0)), I01 |-> FNeg(FMul(K.K0, H.H1)),
     I10 |-> FNeg(FMul(K.K1, H.H0)),          I11 |-> FSub(FInt(1), FMul(K.K1, H.H1))]

\* The filter after the step: P{i+1|i+1} = (I - K H) P{i+1|i}, with the Q, the
\* sigma and the windows of the step.
UpdatedFilter(Q, P, IKH, sigma, residuals, rssi_vals) ==
    [Q00 |-> Q.Q00, Q01 |-> Q.Q01, Q10 |-> Q.Q10, Q11 |-> Q.Q11,
     P00 |-> FAdd(FMul(IKH.I00, P.P00), FMul(IKH.I01, P.P10)),
     P01 |-> FAdd(FMul(IKH.I00, P.P01), FMul(IKH.I01, P.P11)),
     P10 |-> FAdd(FMul(IKH.I10, P.P00), FMul(IKH.I11, P.P10)),
     P11 |-> FAdd(FMul(IKH.I10, P.P01), FMul(IKH.I11, P.P11)),
     sigma |-> sigma,
     residuals |-> residuals,
     rssi_vals |-> rssi_vals]

\* The update of a step, its gain K known: x{i+1|i+1} = x + K * resid.
StepUpdate(kf, RSSI0_i, n_i, rssi_vals, sigma, Q, P, H, resid, S, K) ==
    [kf |-> UpdatedFilter(Q, P, IminusKH(K, H), sigma,
                          PushTrim(kf.residuals, resid), rssi_vals),
     RSSI0 |-> FAdd(RSSI0_i, FMul(K.K0, resid)),
     n |-> FAdd(n_i, FMul(K.K1, resid)),
     S |-> S,
     resid |-> resid]

\* The step from its innovation variance S on.
StepGain(kf, RSSI0_i, n_i, rssi_vals, sigma, Q, P, H, resid, S) ==
    StepUpdate(kf, RSSI0_i, n_i, rssi_vals, sigma, Q, P, H, resid, S, Gain(P, H, S))

\* The step from the predicted P, the measurement row H and the residual on.
StepInnovation(kf, RSSI0_i, n_i, rssi_vals, sigma, Q, P, H, resid) ==
    StepGain(kf, RSSI0_i, n_i, rssi_vals, sigma, Q, P, H, resid,
             InnovationS(P, H, sigma))

\* The step from the adapted sigma and Q on.
StepPredict(kf, RSSI0_i, n_i, r_val, rssi_vals, sigma, Q, H) ==
    StepInnovation(kf, RSSI0_i, n_i, rssi_vals, sigma, Q, PredictP(kf, Q), H,
                   Residual(H, RSSI0_i, n_i, r_val))

\* The step from the RSSI window (the new sample included) on.
StepAdapt(kf, RSSI0_i, n_i, r_val, d_val, rssi_vals) ==
    StepPredict(kf, RSSI0_i, n_i, r_val, rssi_vals, AdaptSigma(kf, rssi_vals),
                AdaptQ(kf, computeResidualVariance(kf.residuals)),
                MeasurementH(d_val))

\* KalmanFilter::sequence_step: the filter after the step, the returned
\* (RSSI0, n), and the step's S and residual.
sequence_step(kf, RSSI0_i, n_i, r_val, d_val) ==
    StepAdapt(kf, RSSI0_i, n_i, r_val, d_val, PushTrim(kf.rssi_vals, r_val))

\* ------------------------------------------------------------------------
\* Geometry & stats kernel (utils.cpp)
\* ------------------------------------------------------------------------

\* R3_distance: the three squared differences, their sum, the square root.
R3_distance(a, b) ==
    LET delta_0 == FSq(FSub(a[1], b[1]))
        delta_1 == FSq(FSub(a[2], b[2]))
        delta_2 == FSq(FSub(a[3], b[3]))
    IN  FSqrt(FAdd(FAdd(delta_0, delta_1), delta_2))

\* cep95_from_conf works on the decimal table of config.h.  It is modelled
\* over exact rationals <<numerator, denominator>> (denominator > 0, lowest
\* terms), in which the table's decimals are exact.

RECURSIVE Gcd(_, _)
Gcd(a, b) == IF b = 0 THEN a ELSE Gcd(b, a % b)

Rat(num, den) ==
    LET g == Gcd(Abs(num), den)
    IN  IF num = 0 THEN <<0, 1>> ELSE <<num \div g, den \div g>>

\* a + b and a - b over the least common denominator, a * b with the common
\* factors of numerators and denominators taken out first, and the comparisons
\* by cross-multiplication over the least common denominator: the products
\* stay small.
RAdd(a, b) ==
    Rat(a[1] * (b[2] \div Gcd(a[2], b[2])) + b[1] * (a[2] \div Gcd(a[2], b[2])),
        a[2] * (b[2] \div Gcd(a[2], b[2])))

RSub(a, b) == RAdd(a, <<-b[1], b[2]>>)

RMul(a, b) ==
    IF a[1] = 0 \/ b[1] = 0 THEN <<0, 1>>
    ELSE Rat((a[1] \div Gcd(Abs(a[1]), b[2])) * (b[1] \div Gcd(Abs(b[1]), a[2])),
             (a[2] \div Gcd(Abs(b[1]), a[2])) * (b[2] \div Gcd(Abs(a[1]), b[2])))

\* a / b for b # 0
RDiv(a, b) == RMul(a, <<Sgn(b[1]) * b[2], Abs(b[1])>>)

RLt(a, b) ==
    a[1] * (b[2] \div Gcd(a[2], b[2])) < b[1] * (a[2] \div Gcd(a[2], b[2]))

RLe(a, b) ==
    a[1] * (b[2] \div Gcd(a[2], b[2])) <= b[1] * (a[2] \div Gcd(a[2], b[2]))

\* Calibration::CEP95_TABLE: (confidence, radius) pairs.
CEP95_TABLE ==
    << <<Rat(5, 100),  Rat(74, 10)>>,
       <<Rat(17, 100), Rat(61, 10)>>,
       <<Rat(43, 100), Rat(43, 10)>>,
       <<Rat(80, 100), Rat(25, 10)>>,
       <<Rat(85, 100), Rat(20, 10)>>,
       <<Rat(90, 100), Rat(16, 10)>>,
       <<Rat(95, 100), Rat(12, 10)>>,
       <<Rat(98, 100), Rat(9, 10)>> >>

\* The loop of cep95_from_conf: from i, the first index (0-based) at which
\* table[i + 1].first > p_conf, or table.size() - 1 when there is none.
RECURSIVE Cep95Segment(_, _)
Cep95Segment(p_conf, i) ==
    IF i < Len(CEP95_TABLE) - 1
    THEN IF RLt(p_conf, CEP95_TABLE[i + 2][1]) THEN i
         ELSE Cep95Segment(p_conf, i + 1)
    ELSE i

\* cep95_from_conf with the slope of the segment taken with the wrong sign
\* (y0 - y1 for y1 - y0).
cep95_slope_reversed(p_conf) ==
    IF RLe(p_conf, CEP95_TABLE[1][1]) THEN CEP95_TABLE[1][2]
    ELSE IF RLe(CEP95_TABLE[Len(CEP95_TABLE)][1], p_conf)
         THEN CEP95_TABLE[Len(CEP95_TABLE)][2]
    ELSE LET i  == Cep95Segment(p_conf, 0)
             x0 == CEP95_TABLE[i + 1][1]
             x1 == CEP95_TABLE[i + 2][1]
             y0 == CEP95_TABLE[i + 1][2]
             y1 == CEP95_TABLE[i + 2][2]
             t  == RDiv(RSub(p_conf, x0), RSub(x1, x0))
         IN  RAdd(y0, RMul(t, RSub(y0, y1)))

\* cep95_from_conf
cep95_from_conf(p_conf) ==
    IF RLe(p_conf, CEP95_TABLE[1][1]) THEN CEP95_TABLE[1][2]
    ELSE IF RLe(CEP95_TABLE[Len(CEP95_TABLE)][1], p_conf)
         THEN CEP95_TABLE[Len(CEP95_TABLE)][2]
    ELSE LET i  == Cep95Segment(p_conf, 0)
             x0 == CEP95_TABLE[i + 1][1]
             x1 == CEP95_TABLE[i + 2][1]
             y0 == CEP95_TABLE[i + 1][2]
             y1 == CEP95_TABLE[i + 2][2]
             t  == RDiv(RSub(p_conf, x0), RSub(x1, x0))
         IN  RAdd(y0, RMul(t, RSub(y1, y0)))

\* ------------------------------------------------------------------------
\* Anchor, Tag, PathLossModel (models.h, models.cpp)
\* ------------------------------------------------------------------------

\* Calibration::LAMBDA_EWMA = 0.05f
LAMBDA_EWMA == FLit(1, 20)

\* A selection threshold above the faulty level.
EwmaThresholdRaised == FInt(16)

\* A rejection threshold inside the selection window.
DeltaRNarrow == FInt(5)

\* Calibration::EWMA_THRESHOLD = 8.0f
EWMA_THRESHOLD == FInt(8)

MAX_SIGNIFICANT_ANCHORS == 5

\* Config::DEFAULT_DELTA_R = 12.0f
DEFAULT_DELTA_R == FInt(12)

DEFAULT_T_VIS == 6000

\* Anchor::Anchor(mac, coordinate, timestamp) with the member initialisers of
\* models.h.  The mac is the anchor's key in the registry.
NewAnchor(coordinate, timestamp) ==
    [coord |-> coordinate,
     ewma |-> FInt(1),
     last_seen |-> timestamp,
     RSSI_0 |-> FInt(-59),
     n |-> FInt(2),
     kalman |-> KalmanInit]

\* update_health with the residual taken as it is, not squared.
update_health_unsquared(a, z, now) ==
    [a EXCEPT !.ewma = FAdd(FMul(LAMBDA_EWMA, z),
                            FMul(FSub(FInt(1), LAMBDA_EWMA), a.ewma)),
              !.last_seen = now]

\* Anchor::update_health
update_health(a, z, now) ==
    [a EXCEPT !.ewma = FAdd(FMul(LAMBDA_EWMA, FSq(z)),
                            FMul(FSub(FInt(1), LAMBDA_EWMA), a.ewma)),
              !.last_seen = now]

\* The anchor with the outcome of a Kalman step stored: the filter, RSSI_0, n.
StoreKalman(a, kaloutpt) ==
    [a EXCEPT !.kalman = kaloutpt.kf,
              !.RSSI_0 = kaloutpt.RSSI0,
              !.n = kaloutpt.n]

\* A parameter update that also resets last_seen.
update_parameters_unseen(a, measured_rssi, estimated_distance) ==
    [StoreKalman(a, sequence_step(a.kalman, a.RSSI_0, a.n,
                                  measured_rssi, estimated_distance))
        EXCEPT !.last_seen = FZero]

\* Anchor::update_parameters
update_parameters(a, measured_rssi, estimated_distance) ==
    StoreKalman(a, sequence_step(a.kalman, a.RSSI_0, a.n,
                                 measured_rssi, estimated_distance))

\* is_warning without its upper bound.
is_warning_unbounded(a) == FGe(a.ewma, FInt(4))

\* Anchor::is_warning
is_warning(a) == FGe(a.ewma, FInt(4)) /\ FLt(a.ewma, FInt(8))

\* Anchor::is_faulty
is_faulty(a) == FGe(a.ewma, FInt(8))

\* PathLossModel: d_0 = 1.0 and sigma = 4.0.
model_sigma == FInt(4)

\* PathLossModel::mu
mu(RSSI_0, n, est_dist) ==
    LET safe_dist == FMax(est_dist, SafeDist)
    IN  FSub(RSSI_0, FMul(FMul(FInt(10), n), Log10(FDiv(safe_dist, d_0))))

\* PathLossModel::z
PathLossZ(rssi_freq, RSSI_0, n, est_dist) ==
    FDiv(FSub(rssi_freq, mu(RSSI_0, n, est_dist)), model_sigma)

\* ------------------------------------------------------------------------
\* TagSystem (metrics.cpp).  A tag is [est_coord, rssi_readings], the
\* readings a function from the macs heard to their RSSI; `reg` maps macs to
\* Anchor values (the pointees); anch_list is a sequence of macs (pointers).
\* ------------------------------------------------------------------------

\* The strongest RSSI over all readings (the max_rssi loops), for a non-empty
\* map.
MaxRssi(rssi_dict) ==
    CHOOSE v \in {rssi_dict[k] : k \in DOMAIN rssi_dict} :
        \A k \in DOMAIN rssi_dict : FGe(v, rssi_dict[k])

\* The filter loop with the RSSI gate strict (> for >=).
KeepFilterStrictGate(reg, tag, anch_list) ==
    LET rssi_dict == tag.rssi_readings
        max_rssi  == MaxRssi(rssi_dict)
        Kept(mac) == /\ mac \in DOMAIN rssi_dict
                     /\ FGt(rssi_dict[mac], FSub(max_rssi, FInt(10)))
                     /\ FLt(reg[mac].ewma, EWMA_THRESHOLD)
    IN  SelectSeq(anch_list, Kept)

\* The filter loop without the ewma gate.
KeepFilterNoEwmaGate(reg, tag, anch_list) ==
    LET rssi_dict == tag.rssi_readings
        max_rssi  == MaxRssi(rssi_dict)
        Kept(mac) == /\ mac \in DOMAIN rssi_dict
                     /\ FGe(rssi_dict[mac], FSub(max_rssi, FInt(10)))
    IN  SelectSeq(anch_list, Kept)

\* The filter loop of get_significant_anchors: the candidates it keeps, in
\* candidate order.
KeepFilter(reg, tag, anch_list) ==
    LET rssi_dict == tag.rssi_readings
        max_rssi  == MaxRssi(rssi_dict)
        Kept(mac) == /\ mac \in DOMAIN rssi_dict
                     /\ FGe(rssi_dict[mac], FSub(max_rssi, FInt(10)))
                     /\ FLt(reg[mac].ewma, EWMA_THRESHOLD)
    IN  SelectSeq(anch_list, Kept)

\* Position of mac in the sequence `order`.
IndexOf(order, mac) == CHOOSE i \in 1..Len(order) : order[i] = mac

\* std::sort(keep, by RSSI descending).  std::sort is not stable: anchors of
\* equal RSSI may come out in any order.  `tie` (a sequence holding every mac
\* once) is the order this call leaves equal elements in.
RECURSIVE SortByRssi(_, _, _)
SortByRssi(keep, rssi_dict, tie) ==
    IF keep = {} THEN << >>
    ELSE LET first == CHOOSE a \in keep : \A b \in keep \ {a} :
                          \/ FGt(rssi_dict[a], rssi_dict[b])
                          \/ /\ rssi_dict[a] = rssi_dict[b]
                             /\ IndexOf(tie, a) < IndexOf(tie, b)
         IN  <<first>> \o SortByRssi(keep \ {first}, rssi_dict, tie)

SeqRange(sq) == {sq[i] : i \in 1..Len(sq)}

\* keep.resize(max_n) when keep.size() > static_cast<size_t>(max_n): a
\* negative max_n converts to a huge size_t, so nothing is truncated.
Truncate(keep, max_n) ==
    IF max_n >= 0 /\ Len(keep) > max_n THEN SubSeq(keep, 1, max_n) ELSE keep

\* TagSystem::get_significant_anchors
get_significant_anchors(reg, tag, anch_list, max_n, tie) ==
    IF DOMAIN tag.rssi_readings = {} THEN << >>
    ELSE Truncate(SortByRssi(SeqRange(KeepFilter(reg, tag, anch_list)),
                             tag.rssi_readings, tie),
                  max_n)

\* TagSystem::distances: the map anchor -> distance over the significant set.
distances(reg, tag, anch_list, tie) ==
    [mac \in SeqRange(get_significant_anchors(reg, tag, anch_list,
                                              MAX_SIGNIFICANT_ANCHORS, tie)) |->
        R3_distance(reg[mac].coord, tag.est_coord)]

\* The loop of z_vals over the distance map.
ZOfDistances(reg, tag, dist_dict) ==
    [mac \in DOMAIN dist_dict |->
        PathLossZ(tag.rssi_readings[mac], reg[mac].RSSI_0, reg[mac].n,
                  dist_dict[mac])]

\* TagSystem::z_vals: the map anchor -> z over the keys of distances().
z_vals(reg, tag, anch_list, tie) ==
    ZOfDistances(reg, tag, distances(reg, tag, anch_list, tie))

\* The score of a non-empty z map: exp(l / scale), l the weighted mean of the
\* Student-t log-densities; lgamma, log1p and exp are not evaluated: the
\* score is kept as the terms (anchor, z, ewma) the sum runs over.
ScoreTerms(reg, z_dict) ==
    [zero |-> FALSE,
     terms |-> {<<mac, z_dict[mac], reg[mac].ewma>> : mac \in DOMAIN z_dict}]

\* The score of a z map: the number 0 when the map is empty.
ScoreOfZ(reg, z_dict) ==
    IF DOMAIN z_dict = {} THEN [zero |-> TRUE, terms |-> {}]
    ELSE ScoreTerms(reg, z_dict)

\* confidence_score without the early return on an empty z map: the mean of
\* no terms (0 / 0) goes through exp, and the result is not the number 0.
confidence_score_unguarded(reg, tag, anch_list, tie) ==
    ScoreTerms(reg, z_vals(reg, tag, anch_list, tie))

\* TagSystem::confidence_score
confidence_score(reg, tag, anch_list, tie) ==
    ScoreOfZ(reg, z_vals(reg, tag, anch_list, tie))

\* cep95_from_conf of a score (left unevaluated, as "cep95 of these terms",
\* when the score is).
RadiusOfScore(p_val) ==
    IF p_val.zero
    THEN [radius |-> cep95_from_conf(Rat(0, 1)), terms |-> {}]
    ELSE [radius |-> <<>>, terms |-> p_val.terms]

\* TagSystem::error_radius
error_radius(reg, tag, anch_list, tie) ==
    RadiusOfScore(confidence_score(reg, tag, anch_list, tie))

\* An evaluator that records the z-scores it computed in the anchors' ewma.
error_radius_recording(reg, tag, anch_list, tie) ==
    [result |-> error_radius(reg, tag, anch_list, tie),
     reg |-> [mac \in DOMAIN reg |->
                 IF mac \in DOMAIN z_vals(reg, tag, anch_list, tie)
                 THEN [reg[mac] EXCEPT !.ewma = FAdd(@, FInt(1))]
                 ELSE reg[mac]]]

\* A call of TagSystem::error_radius: its result and the anchors it leaves.
\* error_radius, confidence_score, z_vals, distances and
\* get_significant_anchors reach the anchors through the const getters of
\* Anchor only.
error_radius_call(reg, tag, anch_list, tie) ==
    [result |-> error_radius(reg, tag, anch_list, tie), reg |-> reg]

\* ------------------------------------------------------------------------
\* update_anchors_from_tag_data (metrics.cpp)
\* ------------------------------------------------------------------------

\* The parameter-update loop: update_parameters on each significant anchor
\* in turn, logging each call.  `acc` is [reg, calls].
RECURSIVE ParameterLoop(_, _, _, _)
ParameterLoop(acc, significant_anchors, rssi_dict, distance_dict) ==
    IF significant_anchors = << >> THEN acc
    ELSE LET mac == Head(significant_anchors)
             upd == update_parameters(acc.reg[mac], rssi_dict[mac], distance_dict[mac])
         IN  ParameterLoop(
                 [reg   |-> [acc.reg EXCEPT ![mac] = upd],
                  calls |-> Append(acc.calls, [op |-> "update_parameters", mac |-> mac])],
                 Tail(significant_anchors), rssi_dict, distance_dict)

\* The admission test without the last_seen != 0 case: the time since last
\* seen is always now - last_seen.
AdmittedNoZeroCase(a, sign_anchor_rssi, max_rssi, now, deltaR, T_vis) ==
    LET rssi_delta == FSub(max_rssi, sign_anchor_rssi)
        time_since_last_seen == FSub(now, a.last_seen)
    IN  ~(FGt(time_since_last_seen, FInt(T_vis)) \/ FGt(rssi_delta, deltaR))

\* No admission test: every anchor of the z map is admitted.
AdmittedAlways(a, sign_anchor_rssi, max_rssi, now, deltaR, T_vis) == TRUE

\* The admission test of the health loop for one anchor of the z map: the
\* negation of `time_since_last_seen > T_vis || rssi_delta > deltaR`.
Admitted(a, sign_anchor_rssi, max_rssi, now, deltaR, T_vis) ==
    LET rssi_delta == FSub(max_rssi, sign_anchor_rssi)
        time_since_last_seen ==
            IF ~FEq(a.last_seen, FZero) THEN FSub(now, a.last_seen) ELSE FZero
    IN  ~(FGt(time_since_last_seen, FInt(T_vis)) \/ FGt(rssi_delta, deltaR))

\* The health loop over the z map, visited in the order `keys`: update_health
\* on each admitted anchor, logging each call.
RECURSIVE HealthLoop(_, _, _, _, _, _, _)
HealthLoop(acc, keys, z_dict, rssi_dict, now, deltaR, T_vis) ==
    IF keys = << >> THEN acc
    ELSE LET mac  == Head(keys)
             rest == Tail(keys)
         IN  IF Admitted(acc.reg[mac], rssi_dict[mac], MaxRssi(rssi_dict),
                         now, deltaR, T_vis)
             THEN HealthLoop(
                      [reg   |-> [acc.reg EXCEPT
                                     ![mac] = update_health(acc.reg[mac], z_dict[mac], now)],
                       calls |-> Append(acc.calls, [op |-> "update_health", mac |-> mac])],
                      rest, z_dict, rssi_dict, now, deltaR, T_vis)
             ELSE HealthLoop(acc, rest, z_dict, rssi_dict, now, deltaR, T_vis)

\* The macs of the set `keys` in the order they have in `order`.
OrderedBy(keys, order) == SelectSeq(order, LAMBDA mac : mac \in keys)

\* One loop over the significant anchors that updates the parameters and then
\* the health of each anchor in turn.
RECURSIVE InterleavedLoop(_, _, _, _, _, _, _)
InterleavedLoop(acc, significant_anchors, rssi_dict, distance_dict, now, deltaR, T_vis) ==
    IF significant_anchors = << >> THEN acc
    ELSE LET mac == Head(significant_anchors)
             upd == update_parameters(acc.reg[mac], rssi_dict[mac], distance_dict[mac])
             z   == PathLossZ(rssi_dict[mac], upd.RSSI_0, upd.n, distance_dict[mac])
             adm == Admitted(upd, rssi_dict[mac], MaxRssi(rssi_dict), now, deltaR, T_vis)
         IN  InterleavedLoop(
                 [reg   |-> [acc.reg EXCEPT
                                ![mac] = IF adm THEN update_health(upd, z, now) ELSE upd],
                  calls |-> acc.calls
                            \o <<[op |-> "update_parameters", mac |-> mac]>>
                            \o (IF adm THEN <<[op |-> "update_health", mac |-> mac]>>
                                        ELSE << >>)],
                 Tail(significant_anchors), rssi_dict, distance_dict, now, deltaR, T_vis)

\* update_anchors_from_tag_data as that single loop.
update_anchors_interleaved(reg, anch_list, inpt_tag, now, deltaR, T_vis, ord) ==
    LET rssi_dict == inpt_tag.rssi_readings
    IN  IF DOMAIN rssi_dict = {}
        THEN [reg |-> reg, calls |-> << >>, zkeys |-> {}, zvals |-> << >>]
        ELSE
          LET significant_anchors ==
                  get_significant_anchors(reg, inpt_tag, anch_list,
                                          MAX_SIGNIFICANT_ANCHORS, ord)
              after == InterleavedLoop([reg |-> reg, calls |-> << >>],
                           significant_anchors, rssi_dict,
                           distances(reg, inpt_tag, anch_list, ord),
                           now, deltaR, T_vis)
          IN  [reg |-> after.reg, calls |-> after.calls,
               zkeys |-> SeqRange(significant_anchors),
               zvals |-> z_vals(after.reg, inpt_tag, anch_list, ord)]

\* What update_anchors_from_tag_data leaves: the registry, the log of the
\* calls made, the z map of its health loop and the keys of that map.
UpdateOutcome(acc, z_dict) ==
    [reg |-> acc.reg, calls |-> acc.calls, zkeys |-> DOMAIN z_dict, zvals |-> z_dict]

\* The health update on the z map of the updated anchors.
HealthUpdate(afterParams, z_dict, rssi_dict, now, deltaR, T_vis, ord) ==
    UpdateOutcome(HealthLoop(afterParams, OrderedBy(DOMAIN z_dict, ord), z_dict,
                             rssi_dict, now, deltaR, T_vis),
                  z_dict)

\* update_anchors_from_tag_data with the z map of the health loop computed on
\* the anchors as they were before the parameter loop.
update_anchors_prior_z(reg, anch_list, inpt_tag, now, deltaR, T_vis, ord) ==
    IF DOMAIN inpt_tag.rssi_readings = {}
    THEN [reg |-> reg, calls |-> << >>, zkeys |-> {}, zvals |-> << >>]
    ELSE HealthUpdate(
             ParameterLoop([reg |-> reg, calls |-> << >>],
                           get_significant_anchors(reg, inpt_tag, anch_list,
                                                   MAX_SIGNIFICANT_ANCHORS, ord),
                           inpt_tag.rssi_readings,
                           distances(reg, inpt_tag, anch_list, ord)),
             z_vals(reg, inpt_tag, anch_list, ord),
             inpt_tag.rssi_readings, now, deltaR, T_vis, ord)

\* update_anchors_from_tag_data after its parameter loop: the z map is
\* computed on the anchors as the parameter loop has left them.
AfterParameters(afterParams, anch_list, inpt_tag, now, deltaR, T_vis, ord) ==
    HealthUpdate(afterParams, z_vals(afterParams.reg, inpt_tag, anch_list, ord),
                 inpt_tag.rssi_readings, now, deltaR, T_vis, ord)

\* update_anchors_from_tag_data: the registry after the call, the log of the
\* update_parameters / update_health calls it made, and the keys of its z
\* map.  `ord` is the order the unordered containers are visited in and
\* std::sort leaves equal elements in.
update_anchors_from_tag_data(reg, anch_list, inpt_tag, now, deltaR, T_vis, ord) ==
    IF DOMAIN inpt_tag.rssi_readings = {}
    THEN [reg |-> reg, calls |-> << >>, zkeys |-> {}, zvals |-> << >>]
    ELSE AfterParameters(
             ParameterLoop([reg |-> reg, calls |-> << >>],
                           get_significant_anchors(reg, inpt_tag, anch_list,
                                                   MAX_SIGNIFICANT_ANCHORS, ord),
                           inpt_tag.rssi_readings,
                           distances(reg, inpt_tag, anch_list, ord)),
             anch_list, inpt_tag, now, deltaR, T_vis, ord)

\* ------------------------------------------------------------------------
\* The message handler (main.cpp)
\* ------------------------------------------------------------------------

\* The anchors of the deployment and the coordinates the configuration
\* service returns for each (create_anchor_class reads x, y, z from it).
AnchorIds == {"a1", "a2"}

AnchorCoord(mac) ==
    CASE mac = "a1" -> <<FInt(1), FZero, FZero>>
      [] mac = "a2" -> <<FInt(10), FZero, FZero>>
      [] mac = "a3" -> <<FZero, FZero, FZero>>

NoMessage == [none |-> TRUE]

\* create_anchor_classes: an Anchor for every mac that resolves, created with
\* the wall-clock time `wall` as its timestamp; a mac that fails to resolve
\* (`unres`) is skipped.
create_anchor_classes(anch_macs, unres, wall) ==
    [mac \in anch_macs \ unres |-> NewAnchor(AnchorCoord(mac), wall)]

\* extract_anchor_macs_from_message: the macs of used_anchors and of
\* unused_anchors, without duplicates.
extract_anchor_macs_from_message(msg) == (DOMAIN msg.used) \cup msg.unused

\* create_tag_class: the tag position and the RSSI map of used_anchors.
create_tag_class(msg) == [est_coord |-> msg.pos, rssi_readings |-> msg.used]

\* The loop of on_message over the RSSI readings: a known mac joins the
\* candidate list; an unknown one is created first, and skipped when its
\* creation throws.  The registry after the loop.
RegisterUsed(reg, rssi_readings, unres, wall) ==
    LET created == (DOMAIN rssi_readings) \ (DOMAIN reg \cup unres)
    IN  [mac \in DOMAIN reg \cup created |->
            IF mac \in DOMAIN reg THEN reg[mac]
            ELSE NewAnchor(AnchorCoord(mac), wall)]

\* create_anchors_info: the three lists of the output, over anch_list.  The
\* order of the lists is the order of anch_list; they are kept as sets.
create_anchors_info(reg, anch_list) ==
    [anchors_selected_for_estimation |->
         {[mac |-> mac, n_var |-> reg[mac].n, ewma |-> reg[mac].ewma] :
             mac \in SeqRange(anch_list)},
     warning_anchors |-> {mac \in SeqRange(anch_list) : is_warning(reg[mac])},
     faulty_anchors  |-> {mac \in SeqRange(anch_list) : is_faulty(reg[mac])}]

\* tag_info.update(anchors_info)
MergeInfo(error_estimate, info) ==
    [none |-> FALSE,
     error_estimate |-> error_estimate,
     anchors_selected_for_estimation |-> info.anchors_selected_for_estimation,
     warning_anchors |-> info.warning_anchors,
     faulty_anchors  |-> info.faulty_anchors]

\* create_output_info: tag info merged with the anchors info.
create_output_info(error_estimate, reg, anch_list) ==
    MergeInfo(error_estimate, create_anchors_info(reg, anch_list))

\* The end of on_message for a non-empty candidate list: the updated registry
\* is kept and the output message built over anch_list is published.
PublishFix(reg1, message_tag, msg, anch_list, ord, error_estimate, upd) ==
    [anchors |-> upd.reg,
     anchors_initialized |-> TRUE,
     published |-> create_output_info(error_estimate, upd.reg, anch_list),
     last |-> [fix |-> msg, pre |-> reg1, cand |-> SeqRange(anch_list),
               sig |-> SeqRange(get_significant_anchors(reg1, message_tag,
                           anch_list, MAX_SIGNIFICANT_ANCHORS, ord)),
               zkeys |-> upd.zkeys, calls |-> upd.calls, zvals |-> upd.zvals]]

\* on_message from the complete candidate list on: with candidates, the error
\* radius is computed, then the anchors are updated; without, nothing is
\* published.
EvaluateFix(reg1, message_tag, msg, anch_list, ord) ==
    IF anch_list # << >>
    THEN PublishFix(reg1, message_tag, msg, anch_list, ord,
                    error_radius(reg1, message_tag, anch_list, ord),
                    update_anchors_from_tag_data(reg1, anch_list, message_tag,
                        msg.ts, DEFAULT_DELTA_R, DEFAULT_T_VIS, ord))
    ELSE [anchors |-> reg1,
          anchors_initialized |-> TRUE,
          published |-> NoMessage,
          last |-> [fix |-> msg, pre |-> reg1, cand |-> {}, sig |-> {},
                    zkeys |-> {}, calls |-> << >>, zvals |-> << >>]]

\* on_message from the registry of the candidate loop on: anch_list holds the
\* macs of the RSSI map that are registered, in the order the map is visited.
CandidateFix(reg1, message_tag, msg, ord) ==
    EvaluateFix(reg1, message_tag, msg,
                OrderedBy(DOMAIN message_tag.rssi_readings \cap DOMAIN reg1, ord), ord)

\* What the handler did, completed with what it found on entry, the registry
\* (`before`) and whether this was the first message (`first`), and with the
\* macs whose configuration request fails when the discovery of the first
\* message makes it (`unres`) and when the candidate loop does (`unres_loop`).
RecordEntry(out, anchors0, initialized0, unres, unres_loop) ==
    [out EXCEPT !.last = @ @@ [before |-> anchors0, first |-> ~initialized0,
                               unres |-> unres, unres_loop |-> unres_loop,
                               defect |-> "none"]]

\* on_message running the discovery of the first message on every message:
\* the registry is rebuilt from the macs of the message each time.
on_message_rediscover(anchors0, initialized0, msg, unres, unres_loop, wall, ord) ==
    RecordEntry(
        CandidateFix(
            RegisterUsed(create_anchor_classes(extract_anchor_macs_from_message(msg),
                                               unres, wall),
                         msg.used, unres_loop, wall),
            create_tag_class(msg), msg, ord),
        anchors0, initialized0, unres, unres_loop)

\* on_message if the candidate loop ran over every mac of the message, those
\* of unused_anchors included.
on_message_register_unused(anchors0, initialized0, msg, unres, unres_loop, wall, ord) ==
    RecordEntry(
        CandidateFix(
            RegisterUsed(IF ~initialized0
                         THEN create_anchor_classes(extract_anchor_macs_from_message(msg),
                                                    unres, wall)
                         ELSE anchors0,
                         [mac \in extract_anchor_macs_from_message(msg) |-> FZero],
                         unres_loop, wall),
            create_tag_class(msg), msg, ord),
        anchors0, initialized0, unres, unres_loop)

\* on_message for a payload that parses: the registry and the initialised
\* flag after the handler, the message handed to mosquitto_publish (or
\* NoMessage), and a record of what the handler did: the registry as it stood
\* when the candidate list was complete (`pre`), the candidate list, the
\* significant anchors the evaluator scored, the z-map keys and the call log
\* of the orchestrator.  A configuration request is made for each mac of the
\* first message (it fails for the macs of `unres`) and, in the candidate
\* loop, for each mac of the RSSI map that is not registered by then (it fails
\* for the macs of `unres_loop`): a mac of used_anchors that the discovery
\* could not resolve is requested a second time by the same message.
on_message(anchors0, initialized0, msg, unres, unres_loop, wall, ord) ==
    RecordEntry(
        CandidateFix(
            RegisterUsed(IF ~initialized0
                         THEN create_anchor_classes(extract_anchor_macs_from_message(msg),
                                                    unres, wall)
                         ELSE anchors0,
                         msg.used, unres_loop, wall),
            create_tag_class(msg), msg, ord),
        anchors0, initialized0, unres, unres_loop)

\* ------------------------------------------------------------------------
\* State
\* ------------------------------------------------------------------------

VARIABLES
    anchors,             \* MQTTUserData::anchors: mac -> Anchor
    anchors_initialized, \* MQTTUserData::anchors_initialized
    published,           \* the message the last on_message published, if any
    last,                \* what the last on_message did (history)
    nfix,                \* number of messages handled
    kf,                  \* a KalmanFilter driven on its own
    kret,                \* what its last sequence_step was given and returned
    ksteps,              \* number of sequence_step calls on kf
    pin,                 \* the arguments of a call of a pure function
    pcall,               \* the last call of a pure function and its result
    anc,                 \* an Anchor driven on its own
    acall,               \* the last call on it, its arguments, the calls so far
    mutex,               \* anchor_mutex: "free" or the thread that holds it
    cb,                  \* per thread: its on_message callback in progress
    alive                \* the process is running its network loop

vars == <<anchors, anchors_initialized, published, last, nfix,
          kf, kret, ksteps, pin, pcall, anc, acall, mutex, cb, alive>>

mainVars == <<anchors, anchors_initialized, published, last, nfix>>

kalVars == <<kf, kret, ksteps>>

pureVars == <<pin, pcall>>

anchorVars == <<anc, acall>>

lockVars == <<mutex, cb>>

procVars == <<alive>>

\* All the orders of the macs of S, as sequences.
Orders(S) ==
    {sq \in [1..Cardinality(S) -> S] : \A mac \in S : \E i \in DOMAIN sq : sq[i] = mac}

\* ------------------------------------------------------------------------
\* The service: one action per MQTT message handled
\* ------------------------------------------------------------------------

\* Number of messages handled in a run.
MaxFixes == 2

\* RSSI readings of a message.
RssiVals == {FInt(-50), FInt(-110)}

\* Message timestamps (ms) and the wall-clock time (ms) at which an Anchor is
\* created.
Stamps == {FZero, FInt(8000), FInt(12000)}

WallClock == {FInt(2000)}

\* Tag positions of a message.
TagPositions == {<<FZero, FZero, FZero>>}

\* Anchors whose configuration request may fail.
Unresolvable == {"a2"}

NoFix == [fix |-> NoMessage, pre |-> << >>, cand |-> {}, sig |-> {},
          zkeys |-> {}, calls |-> << >>, before |-> << >>, first |-> FALSE,
          unres |-> {}, unres_loop |-> {}, defect |-> "none", zvals |-> << >>]

MainIdle ==
    /\ anchors = << >>
    /\ anchors_initialized = FALSE
    /\ published = NoMessage
    /\ last = NoFix
    /\ nfix = 0

KalmanIdle ==
    /\ kf = KalmanInit
    /\ kret = [steps |-> 0]
    /\ ksteps = 0

PureIdle ==
    /\ pin = [fn |-> "none"]
    /\ pcall = [fn |-> "none"]

\* An Anchor as the tests construct it: at the origin, timestamp 0.
AnchorIdle ==
    /\ anc = NewAnchor(<<FZero, FZero, FZero>>, FZero)
    /\ acall = [fn |-> "none", steps |-> 0]

\* The threads that may run on_message at the same time.
LockThreads == {"t1", "t2"}

\* A thread outside on_message.
NoCallback ==
    [pc |-> "idle", msg |-> NoMessage, ord |-> << >>,
     snap |-> [anchors |-> << >>, anchors_initialized |-> FALSE],
     anch_list |-> << >>, error_estimate |-> NoMessage, out |-> NoMessage]

\* anchor_mutex as constructed, no callback running, the process started.
LockIdle ==
    /\ mutex = "free"
    /\ cb = [t \in LockThreads |-> NoCallback]
    /\ alive = TRUE

\* The state after main() has set up MQTTUserData: no anchors, not
\* initialised, nothing published.
Init == MainIdle /\ KalmanIdle /\ PureIdle /\ AnchorIdle /\ LockIdle

\* on_message on a payload that parses.  The discovery requests are made by
\* the first message only, for the macs of the message; the candidate loop
\* requests the macs of the RSSI map that are not registered by then; `ord`
\* orders the macs of the RSSI map.  A later message does not read
\* unused_anchors: only the macs it could add to the registry are listed there.
OnMessage ==
    /\ nfix < MaxFixes
    /\ \E S \in SUBSET AnchorIds, ts \in Stamps, wall \in WallClock,
          pos \in TagPositions :
         \E used \in [S -> RssiVals], ord \in Orders(S),
            unused \in SUBSET (AnchorIds \ (S \cup DOMAIN anchors)) :
           \E unres \in SUBSET (Unresolvable \cap
                   (IF anchors_initialized THEN {} ELSE S \cup unused)) :
           \E unres_loop \in SUBSET (Unresolvable \cap
                   (IF anchors_initialized THEN S \ DOMAIN anchors ELSE S \cap unres)) :
           \E r \in {on_message(anchors, anchors_initialized,
                                [none |-> FALSE, pos |-> pos, used |-> used,
                                 unused |-> unused, ts |-> ts],
                                unres, unres_loop, wall, ord)} :
               /\ anchors' = r.anchors
               /\ anchors_initialized' = r.anchors_initialized
               /\ published' = r.published
               /\ last' = r.last
               /\ nfix' = nfix + 1
    /\ UNCHANGED <<kalVars, pureVars, anchorVars, lockVars, procVars>>

Next == OnMessage

Spec == Init /\ [][Next]_vars

\* ------------------------------------------------------------------------
\* A KalmanFilter on its own: sequence_step called again and again on one
\* filter, each call given the (rssi0, n) the call before returned, as
\* Anchor::update_parameters does.
\* ------------------------------------------------------------------------

\* Number of sequence_step calls in a run.
MaxSteps == 6

\* The measurements and distances of the calls.
KalmanRssi == {FInt(-59), FInt(-70)}

KalmanDist == {FInt(-1), FZero, FInt(1)}

InitKalman == MainIdle /\ KalmanIdle /\ PureIdle /\ AnchorIdle /\ LockIdle

KalmanStep ==
    /\ ksteps < MaxSteps
    /\ \E r_val \in KalmanRssi, d_val \in KalmanDist :
         \E x \in {IF ksteps = 0 THEN <<FInt(-59), FInt(2)>>
                                ELSE <<kret.RSSI0, kret.n>>} :
           \E out \in {sequence_step(kf, x[1], x[2], r_val, d_val)} :
               /\ kf' = out.kf
               /\ kret' = [steps |-> ksteps + 1,
                           RSSI0_i |-> x[1], n_i |-> x[2],
                           r_val |-> r_val, d_val |-> d_val,
                           RSSI0 |-> out.RSSI0, n |-> out.n, S |-> out.S]
               /\ ksteps' = ksteps + 1
    /\ UNCHANGED <<mainVars, pureVars, anchorVars, lockVars, procVars>>

NextKalman == KalmanStep

SpecKalman == InitKalman /\ [][NextKalman]_vars

\* ------------------------------------------------------------------------
\* TagSystem called on its own (as tests/test_metrics.cpp does): a registry,
\* a tag and a candidate list are given, and get_significant_anchors,
\* confidence_score and error_radius are called on them.
\* ------------------------------------------------------------------------

SelIds == {"a1", "a2", "a3"}

\* The ewma of the anchors handed in, and the RSSI readings of the tag.
SelEwma == {FInt(1), FInt(8)}

SelRssi == {FInt(-50), FInt(-60), FInt(-61)}

\* Largest explicit max_n argument (the default is MAX_SIGNIFICANT_ANCHORS).
MaxN == 2

SelAnchor(mac, ewma) == [NewAnchor(AnchorCoord(mac), FZero) EXCEPT !.ewma = ewma]

InitSel ==
    /\ MainIdle
    /\ KalmanIdle
    /\ AnchorIdle
    /\ LockIdle
    /\ pcall = [fn |-> "none"]
    /\ \E ew \in [SelIds -> SelEwma], S \in SUBSET SelIds, C \in SUBSET SelIds :
         \E rssi \in [S -> SelRssi], cand \in Orders(C) :
            pin = [fn |-> "TagSystem",
                   reg |-> [mac \in SelIds |-> SelAnchor(mac, ew[mac])],
                   tag |-> [est_coord |-> <<FZero, FZero, FZero>>,
                            rssi_readings |-> rssi],
                   anch_list |-> cand]

CallGetSignificantAnchors ==
    /\ pin.fn = "TagSystem"
    /\ pcall.fn = "none"
    /\ \E max_n \in (0..MaxN) \cup {MAX_SIGNIFICANT_ANCHORS}, tie \in Orders(SelIds) :
         pcall' = [fn |-> "get_significant_anchors", max_n |-> max_n,
                   result |-> get_significant_anchors(pin.reg, pin.tag,
                                                      pin.anch_list, max_n, tie)]
    /\ UNCHANGED <<mainVars, kalVars, pin, anchorVars, lockVars, procVars>>

CallConfidenceScore ==
    /\ pin.fn = "TagSystem"
    /\ pcall.fn = "none"
    /\ \E tie \in Orders(SelIds) :
         pcall' = [fn |-> "confidence_score",
                   result |-> confidence_score(pin.reg, pin.tag, pin.anch_list, tie)]
    /\ UNCHANGED <<mainVars, kalVars, pin, anchorVars, lockVars, procVars>>

CallErrorRadius ==
    /\ pin.fn = "TagSystem"
    /\ pcall.fn = "none"
    /\ \E tie \in Orders(SelIds) :
         pcall' = [fn |-> "error_radius",
                   result |-> error_radius(pin.reg, pin.tag, pin.anch_list, tie)]
    /\ UNCHANGED <<mainVars, kalVars, pin, anchorVars, lockVars, procVars>>

\* error_radius called twice on the same candidate list, nothing in between:
\* the second call finds the anchors as the first one left them.
CallErrorRadiusTwice ==
    /\ pin.fn = "TagSystem"
    /\ pcall.fn = "none"
    /\ \E tie \in Orders(SelIds) :
         \E first \in {error_radius_call(pin.reg, pin.tag, pin.anch_list, tie)} :
           \E again \in {error_radius_call(first.reg, pin.tag, pin.anch_list, tie)} :
             pcall' = [fn |-> "error_radius_twice",
                       result |-> first.result, reg |-> first.reg,
                       result_again |-> again.result, reg_again |-> again.reg]
    /\ UNCHANGED <<mainVars, kalVars, pin, anchorVars, lockVars, procVars>>

NextSel ==
    \/ CallGetSignificantAnchors
    \/ CallConfidenceScore
    \/ CallErrorRadius
    \/ CallErrorRadiusTwice

SpecSel == InitSel /\ [][NextSel]_vars

\* ------------------------------------------------------------------------
\* cep95_from_conf called on its own, on the confidences n / ConfDen of
\* [0, 1].
\* ------------------------------------------------------------------------

ConfDen == 200

ConfGrid == {Rat(i, ConfDen) : i \in 0..ConfDen}

InitCep ==
    /\ MainIdle
    /\ KalmanIdle
    /\ AnchorIdle
    /\ LockIdle
    /\ pcall = [fn |-> "none"]
    /\ \E p_conf \in ConfGrid : pin = [fn |-> "cep95_from_conf", p_conf |-> p_conf]

CallCep95 ==
    /\ pin.fn = "cep95_from_conf"
    /\ pcall.fn = "none"
    /\ pcall' = [fn |-> "cep95_from_conf", p_conf |-> pin.p_conf,
                 result |-> cep95_from_conf(pin.p_conf)]
    /\ UNCHANGED <<mainVars, kalVars, pin, anchorVars, lockVars, procVars>>

NextCep == CallCep95

SpecCep == InitCep /\ [][NextCep]_vars

\* ------------------------------------------------------------------------
\* An Anchor on its own (as tests/test_models.cpp does): update_parameters
\* called again and again on one anchor.
\* ------------------------------------------------------------------------

\* Number of calls on the anchor in a run.
MaxUpdates == 4

\* The measured RSSI and the estimated distances of the calls.
ParamRssi == {FInt(-50), FInt(-70)}

ParamDist == {FInt(1), FInt(10), FInt(100)}

InitParams == MainIdle /\ KalmanIdle /\ PureIdle /\ AnchorIdle /\ LockIdle

UpdateParameters ==
    /\ acall.steps < MaxUpdates
    /\ \E measured_rssi \in ParamRssi, estimated_distance \in ParamDist :
         /\ anc' = update_parameters(anc, measured_rssi, estimated_distance)
         /\ acall' = [fn |-> "update_parameters", steps |-> acall.steps + 1,
                      measured_rssi |-> measured_rssi,
                      estimated_distance |-> estimated_distance]
    /\ UNCHANGED <<mainVars, kalVars, pureVars, lockVars, procVars>>

NextParams == UpdateParameters

SpecParams == InitParams /\ [][NextParams]_vars

\* ------------------------------------------------------------------------
\* on_message called from several threads: the handler takes anchor_mutex
\* before it touches MQTTUserData and holds it until it returns.  The body is
\* cut where it passes from one use of the shared state to the next: the
\* discovery and the candidate loop, the error radius, the update of the
\* anchors, the publish.
\* ------------------------------------------------------------------------

\* Number of callbacks in a run.
MaxCallbacks == 3

\* The payloads of the callbacks and the wall clock of an anchor's creation.
LockMacs == {{"a1"}, {"a2"}, {"a1", "a2"}}

LockMessage(S) ==
    [none |-> FALSE, pos |-> <<FZero, FZero, FZero>>,
     used |-> [mac \in S |-> FInt(-50)], unused |-> {}, ts |-> FInt(8000)]

LockWall == FInt(2000)

InitLock == MainIdle /\ KalmanIdle /\ PureIdle /\ AnchorIdle /\ LockIdle

\* The transport calls on_message on thread t.
Arrive(t) ==
    /\ cb[t].pc = "idle"
    /\ nfix < MaxCallbacks
    /\ \E S \in LockMacs : \E ord \in Orders(S) :
         cb' = [cb EXCEPT ![t] = [NoCallback EXCEPT !.pc = "lock",
                                     !.msg = LockMessage(S), !.ord = ord]]
    /\ nfix' = nfix + 1
    /\ UNCHANGED <<anchors, anchors_initialized, published, last, mutex,
                   kalVars, pureVars, anchorVars, procVars>>

\* std::lock_guard constructed without waiting for the mutex.
AcquireNoWait(t) ==
    /\ cb[t].pc = "lock"
    /\ mutex' = t
    /\ cb' = [cb EXCEPT ![t].pc = "candidates",
                        ![t].snap = [anchors |-> anchors,
                                     anchors_initialized |-> anchors_initialized]]
    /\ UNCHANGED <<mainVars, kalVars, pureVars, anchorVars, procVars>>

\* std::lock_guard<std::mutex> lock(anchor_mutex): the thread waits until the
\* mutex is free and takes it.  `snap` keeps the shared state it then finds.
Acquire(t) ==
    /\ cb[t].pc = "lock"
    /\ mutex = "free"
    /\ mutex' = t
    /\ cb' = [cb EXCEPT ![t].pc = "candidates",
                        ![t].snap = [anchors |-> anchors,
                                     anchors_initialized |-> anchors_initialized]]
    /\ UNCHANGED <<mainVars, kalVars, pureVars, anchorVars, procVars>>

\* The discovery of the first message and the candidate loop, on the shared
\* registry; without candidates the handler goes to its end.
Candidates(t) ==
    /\ cb[t].pc = "candidates"
    /\ \E reg1 \in {RegisterUsed(IF ~anchors_initialized
                                 THEN create_anchor_classes(
                                          extract_anchor_macs_from_message(cb[t].msg),
                                          {}, LockWall)
                                 ELSE anchors,
                                 cb[t].msg.used, {}, LockWall)} :
         \E anch_list \in {OrderedBy(DOMAIN cb[t].msg.used \cap DOMAIN reg1,
                                     cb[t].ord)} :
           /\ anchors' = reg1
           /\ anchors_initialized' = TRUE
           /\ cb' = [cb EXCEPT ![t].anch_list = anch_list,
                               ![t].pc = IF anch_list # << >> THEN "score"
                                                             ELSE "return"]
    /\ UNCHANGED <<published, last, nfix, mutex, kalVars, pureVars, anchorVars, procVars>>

\* message_system.error_radius(anch_list), reading the anchors.
Score(t) ==
    /\ cb[t].pc = "score"
    /\ cb' = [cb EXCEPT ![t].error_estimate =
                            error_radius(anchors, create_tag_class(cb[t].msg),
                                         cb[t].anch_list, cb[t].ord),
                        ![t].pc = "update"]
    /\ UNCHANGED <<mainVars, mutex, kalVars, pureVars, anchorVars, procVars>>

\* update_anchors_from_tag_data(anch_list, ...), writing the anchors.
Update(t) ==
    /\ cb[t].pc = "update"
    /\ anchors' = update_anchors_from_tag_data(anchors, cb[t].anch_list,
                       create_tag_class(cb[t].msg), cb[t].msg.ts,
                       DEFAULT_DELTA_R, DEFAULT_T_VIS, cb[t].ord).reg
    /\ cb' = [cb EXCEPT ![t].pc = "publish"]
    /\ UNCHANGED <<anchors_initialized, published, last, nfix, mutex,
                   kalVars, pureVars, anchorVars, procVars>>

\* create_output_info over the anchors as they are now, and mosquitto_publish.
Publish(t) ==
    /\ cb[t].pc = "publish"
    /\ \E output_msg \in {create_output_info(cb[t].error_estimate, anchors,
                                             cb[t].anch_list)} :
         /\ published' = output_msg
         /\ cb' = [cb EXCEPT ![t].out = output_msg, ![t].pc = "return"]
    /\ UNCHANGED <<anchors, anchors_initialized, last, nfix, mutex,
                   kalVars, pureVars, anchorVars, procVars>>

\* The handler returns: the lock_guard is destroyed and the mutex released.
Return(t) ==
    /\ cb[t].pc = "return"
    /\ mutex' = "free"
    /\ cb' = [cb EXCEPT ![t] = NoCallback]
    /\ UNCHANGED <<mainVars, kalVars, pureVars, anchorVars, procVars>>

NextLock ==
    \E t \in LockThreads :
        \/ Arrive(t)
        \/ Acquire(t)
        \/ Candidates(t)
        \/ Score(t)
        \/ Update(t)
        \/ Publish(t)
        \/ Return(t)

SpecLock == InitLock /\ [][NextLock]_vars

\* ------------------------------------------------------------------------
\* on_message fed payloads that decode and payloads that do not.
\* ------------------------------------------------------------------------

\* Number of messages in a run.
MaxDecodes == 3

\* The messages: the macs of used_anchors and of unused_anchors, one RSSI.
DecodeMessage(S, unused) ==
    [none |-> FALSE, pos |-> <<FZero, FZero, FZero>>,
     used |-> [mac \in S |-> FInt(-50)], unused |-> unused, ts |-> FInt(8000)]

\* The payloads that do not decode: text that is not JSON, and a JSON message
\* in which one of the fields on_message reads is absent or of the wrong type.
DecodeDefects ==
    {"malformed",
     "tag_mac_missing", "tag_mac_type",
     "position_x_missing", "position_x_type",
     "rssi_missing", "rssi_type",
     "timestamp_missing", "timestamp_type"}

\* The reads of an absent key through a const json: tag_data is const in
\* create_tag_class and the elements of used_anchors are visited by const
\* reference.  nlohmann::json leaves that read undefined (an assertion guards
\* it): the process is aborted, or the read goes on and an exception is
\* thrown from what it finds.  The other reads throw: position_data and the
\* tag_data of on_message are not const, so an absent key reads as null, and
\* get<>() of a value of the wrong type throws type_error.
DecodeOutcomes(defect) ==
    IF defect \in {"tag_mac_missing", "rssi_missing"}
    THEN {"abort", "thrown"}
    ELSE {"thrown"}

\* on_message on a payload that does not decode.  json::parse throws before
\* anything is read; the other defects are met in create_tag_class or at the
\* timestamp, after the discovery of a first message has run.  A thrown
\* exception is caught at the end of on_message, which logs it and returns.
on_message_undecodable(anchors0, initialized0, msg, defect, outcome, wall) ==
    [anchors |-> IF defect # "malformed" /\ ~initialized0
                 THEN create_anchor_classes(extract_anchor_macs_from_message(msg),
                                            {}, wall)
                 ELSE anchors0,
     anchors_initialized |-> (defect # "malformed") \/ initialized0,
     published |-> NoMessage,
     alive |-> outcome # "abort",
     last |-> [NoFix EXCEPT !.fix = msg, !.before = anchors0,
                            !.first = ~initialized0, !.defect = defect]]

InitDecode == MainIdle /\ KalmanIdle /\ PureIdle /\ AnchorIdle /\ LockIdle

\* on_message on a payload that decodes.
Decoded ==
    /\ alive
    /\ nfix < MaxDecodes
    /\ \E S \in SUBSET AnchorIds : \E ord \in Orders(S) :
         \E r \in {on_message(anchors, anchors_initialized, DecodeMessage(S, {}),
                              {}, {}, LockWall, ord)} :
           /\ anchors' = r.anchors
           /\ anchors_initialized' = r.anchors_initialized
           /\ published' = r.published
           /\ last' = r.last
    /\ nfix' = nfix + 1
    /\ UNCHANGED <<kalVars, pureVars, anchorVars, lockVars, alive>>

\* on_message on a payload that does not decode.
Undecodable ==
    /\ alive
    /\ nfix < MaxDecodes
    /\ \E S \in SUBSET AnchorIds, defect \in DecodeDefects :
         \E unused \in SUBSET (AnchorIds \ S), outcome \in DecodeOutcomes(defect) :
           \E r \in {on_message_undecodable(anchors, anchors_initialized,
                          DecodeMessage(S, unused), defect, outcome, LockWall)} :
             /\ defect \in {"rssi_missing", "rssi_type"} => S # {}
             /\ anchors' = r.anchors
             /\ anchors_initialized' = r.anchors_initialized
             /\ published' = r.published
             /\ last' = r.last
             /\ alive' = r.alive
    /\ nfix' = nfix + 1
    /\ UNCHANGED <<kalVars, pureVars, anchorVars, lockVars>>

NextDecode == Decoded \/ Undecodable

SpecDecode == InitDecode /\ [][NextDecode]_vars

\* ------------------------------------------------------------------------
\* An Anchor on its own under a stream of update_health calls.  The stream is
\* of one kind from the start: its residuals are drawn from one set.
\* ------------------------------------------------------------------------

\* The kinds of stream and their residuals: all zero; z^2 between 9 and 84;
\* z^2 just above 8 (2897/1024 is the float next above sqrt(8) at a mantissa
\* of 12 bits); z^2 = 144.
HealthStreams == {"zero", "steady", "near", "huge"}

HealthZ(stream) ==
    CASE stream = "zero"   -> {FZero}
      [] stream = "steady" -> {FInt(3), FInt(-4)}
      [] stream = "near"   -> {FLit(2897, 1024)}
      [] stream = "huge"   -> {FInt(12)}

\* The timestamp of the calls.
HealthNow == FInt(1)

InitHealth ==
    /\ MainIdle /\ KalmanIdle /\ PureIdle /\ LockIdle
    /\ anc = NewAnchor(<<FZero, FZero, FZero>>, FZero)
    /\ \E stream \in HealthStreams :
          acall = [fn |-> "none", steps |-> 0, stream |-> stream]

\* The record of a call: `ewma0` keeps the ewma the call found, `steps` the
\* parity of the number of calls made.
CallMade ==
    acall' = [fn |-> "update_health", steps |-> (acall.steps + 1) % 2,
              stream |-> acall.stream, ewma0 |-> anc.ewma]

\* One call.
UpdateHealth ==
    /\ \E z \in HealthZ(acall.stream) :
         anc' = update_health(anc, z, HealthNow)
    /\ CallMade
    /\ UNCHANGED <<mainVars, kalVars, pureVars, lockVars, procVars>>

NextHealth == UpdateHealth

SpecHealth == InitHealth /\ [][NextHealth]_vars

\* The stream goes on: the next call is not put off for ever.
SpecHealthFair == SpecHealth /\ WF_acall(CallMade)

\* ------------------------------------------------------------------------
\* One filter over a long run of sequence_step calls, long enough for the
\* windows to overflow (tests/test_kalman.cpp, buffer management).
\* ------------------------------------------------------------------------

\* Number of sequence_step calls in a long run.
MaxWindowSteps == 52

\* The measurements of a long run: a repeating pattern of RSSI values at one
\* distance.
WindowStreams ==
    [pattern : {<<FInt(-59)>>, <<FInt(-59), FInt(-70)>>,
                <<FInt(-59), FInt(-70), FInt(-50)>>},
     d_val : {FZero, FInt(1)}]

InitWindow ==
    /\ MainIdle /\ PureIdle /\ AnchorIdle /\ LockIdle
    /\ kf = KalmanInit
    /\ ksteps = 0
    /\ \E stream \in WindowStreams :
         kret = [steps |-> 0, stream |-> stream, RSSI0 |-> FInt(-59), n |-> FInt(2),
                 arrived |-> << >>, resids |-> << >>, kf0 |-> KalmanInit]

\* One call, fed the (RSSI0, n) the previous call returned.  `arrived` and
\* `resids` keep every measurement and every residual of the run in arrival
\* order, `kf0` the filter the call found.
WindowStep ==
    /\ ksteps < MaxWindowSteps
    /\ \E r_val \in {kret.stream.pattern[(ksteps % Len(kret.stream.pattern)) + 1]} :
         \E out \in {sequence_step(kf, kret.RSSI0, kret.n, r_val, kret.stream.d_val)} :
           /\ kf' = out.kf
           /\ kret' = [steps |-> ksteps + 1, stream |-> kret.stream,
                       RSSI0 |-> out.RSSI0, n |-> out.n,
                       arrived |-> Append(kret.arrived, r_val),
                       resids |-> Append(kret.resids, out.resid),
                       kf0 |-> kf]
           /\ ksteps' = ksteps + 1
    /\ UNCHANGED <<mainVars, pureVars, anchorVars, lockVars, procVars>>

NextWindow == WindowStep

SpecWindow == InitWindow /\ [][NextWindow]_vars

\* ------------------------------------------------------------------------
\* One anchor under a sequence of fixes: each fix is evaluated (z_vals, as
\* error_radius does) and then handed to update_anchors_from_tag_data, as
\* on_message does with a candidate list of that one anchor.
\* ------------------------------------------------------------------------

\* Number of fixes in a run.
MaxReplays == 6

\* The fixes: the RSSI heard from the anchor and the tag position.  The
\* anchor is at the origin with rssi0 = -59 and n = 2, so -59 at distance 1
\* and -79 at distance 10 are what the path-loss model predicts.
ReplayFixes ==
    {[rssi |-> FInt(-59), pos |-> <<FInt(1), FZero, FZero>>],
     [rssi |-> FInt(-79), pos |-> <<FInt(10), FZero, FZero>>],
     [rssi |-> FInt(-50), pos |-> <<FInt(1), FZero, FZero>>]}

\* The timestamp of the fixes.
ReplayNow == FInt(8000)

ReplayTag(fix) == [est_coord |-> fix.pos, rssi_readings |-> [mac \in {"a1"} |-> fix.rssi]]

InitReplay == MainIdle /\ KalmanIdle /\ PureIdle /\ AnchorIdle /\ LockIdle

\* One fix.  `z` keeps the z-score of the evaluation, `anc0` the anchor the
\* fix found, `first` the first fix of the run and its z, `replay` whether
\* every fix so far was that same fix.
ReplayFix ==
    /\ acall.steps < MaxReplays
    /\ \E fix \in ReplayFixes :
         \E z_dict \in {z_vals([mac \in {"a1"} |-> anc], ReplayTag(fix), <<"a1">>, <<"a1">>)},
            upd \in {update_anchors_from_tag_data([mac \in {"a1"} |-> anc], <<"a1">>,
                         ReplayTag(fix), ReplayNow, DEFAULT_DELTA_R, DEFAULT_T_VIS,
                         <<"a1">>)} :
           /\ anc' = upd.reg["a1"]
           /\ acall' = [fn |-> "fix", steps |-> acall.steps + 1, fix |-> fix,
                        z |-> z_dict, anc0 |-> anc,
                        first |-> IF acall.steps = 0
                                  THEN [fix |-> fix, z |-> z_dict]
                                  ELSE acall.first,
                        replay |-> (acall.steps = 0) \/
                                   (acall.replay /\ fix = acall.first.fix)]
    /\ UNCHANGED <<mainVars, kalVars, pureVars, lockVars, procVars>>

NextReplay == ReplayFix

SpecReplay == InitReplay /\ [][NextReplay]_vars

\* ------------------------------------------------------------------------
\* update_anchors_from_tag_data called fix after fix on a registry of two
\* anchors (as tests/test_metrics.cpp calls it, and on_message once the
\* anchors exist).
\* ------------------------------------------------------------------------

\* Number of fixes in a run.
MaxOrchFixes == 3

\* The RSSI maps of the fixes; the tag is at the origin, at distance 1 of a1
\* and 10 of a2.
OrchReadings ==
    {("a1" :> FInt(-50)) @@ ("a2" :> FInt(-60)),
     ("a1" :> FInt(-50)) @@ ("a2" :> FInt(-61)),
     ("a1" :> FInt(-110)) @@ ("a2" :> FInt(-110)),
     ("a1" :> FInt(-110)),
     ("a2" :> FInt(-50))}

\* The timestamps of the fixes and of the anchors' construction.
OrchStamps == {FInt(8000), FInt(12000)}

OrchCreated == {FZero, FInt(2000)}

\* The visibility test of the health loop fails for anchor a at `now`:
\* last_seen != 0 and now - last_seen > T_vis.
VisibilityFails(a, now, T_vis) ==
    /\ ~FEq(a.last_seen, FZero)
    /\ FGt(FSub(now, a.last_seen), FInt(T_vis))

InitOrch ==
    /\ KalmanIdle /\ PureIdle /\ AnchorIdle /\ LockIdle
    /\ \E created \in [AnchorIds -> OrchCreated] :
         anchors = [mac \in AnchorIds |-> NewAnchor(AnchorCoord(mac), created[mac])]
    /\ anchors_initialized = TRUE
    /\ published = NoMessage
    /\ last = [op |-> "none", now |-> FZero, locked |-> {}]
    /\ nfix = 0

\* The record of a fix: the call's inputs, the anchors it found (`pre`), the
\* significant set, the z map and the calls made; `held` the anchors that
\* failed the visibility test in an earlier fix with no timestamp going back
\* since, `locked` those and the ones failing it in this fix.
OrchRecord(rssi, now, ord, upd) ==
    [op |-> "update_anchors_from_tag_data", rssi |-> rssi, now |-> now,
     pre |-> anchors,
     sig |-> SeqRange(get_significant_anchors(anchors,
                 [est_coord |-> <<FZero, FZero, FZero>>, rssi_readings |-> rssi],
                 ord, MAX_SIGNIFICANT_ANCHORS, ord)),
     zkeys |-> upd.zkeys, calls |-> upd.calls,
     held |-> IF FLe(last.now, now) THEN last.locked ELSE {},
     locked |-> (IF FLe(last.now, now) THEN last.locked ELSE {}) \cup
                {mac \in AnchorIds : VisibilityFails(anchors[mac], now, DEFAULT_T_VIS)}]

\* One fix: the anchors heard are the candidate list.
OrchFix ==
    /\ nfix < MaxOrchFixes
    /\ \E rssi \in OrchReadings, now \in OrchStamps :
         \E ord \in Orders(DOMAIN rssi) :
           \E upd \in {update_anchors_from_tag_data(anchors, ord,
                           [est_coord |-> <<FZero, FZero, FZero>>,
                            rssi_readings |-> rssi],
                           now, DEFAULT_DELTA_R, DEFAULT_T_VIS, ord)} :
             /\ anchors' = upd.reg
             /\ last' = OrchRecord(rssi, now, ord, upd)
    /\ nfix' = nfix + 1
    /\ UNCHANGED <<anchors_initialized, published, kalVars, pureVars, anchorVars,
                   lockVars, procVars>>

NextOrch == OrchFix

SpecOrch == InitOrch /\ [][NextOrch]_vars

\* ------------------------------------------------------------------------
\* Anchor::update_parameters and Anchor::update_health called directly on
\* the anchors of a registry of two.
\* ------------------------------------------------------------------------

\* Number of calls in a run.
MaxFieldCalls == 2

\* The z-scores handed to update_health.
FieldZ == {FZero, FInt(3), FInt(12)}

\* The record of a call: the anchor it was made on and the registry it found.
FieldRecord(op, mac) ==
    [op |-> op, mac |-> mac, pre |-> anchors, now |-> FZero, locked |-> {}]

\* anchors[mac]->update_parameters(measured_rssi, estimated_distance)
FieldUpdateParameters ==
    /\ nfix < MaxFieldCalls
    /\ \E mac \in AnchorIds, measured_rssi \in ParamRssi, estimated_distance \in ParamDist :
         /\ anchors' = [anchors EXCEPT ![mac] =
                            update_parameters(@, measured_rssi, estimated_distance)]
         /\ last' = FieldRecord("update_parameters", mac)
    /\ nfix' = nfix + 1
    /\ UNCHANGED <<anchors_initialized, published, kalVars, pureVars, anchorVars,
                   lockVars, procVars>>

\* anchors[mac]->update_health(z, now)
FieldUpdateHealth ==
    /\ nfix < MaxFieldCalls
    /\ \E mac \in AnchorIds, z \in FieldZ, now \in OrchStamps :
         /\ anchors' = [anchors EXCEPT ![mac] = update_health(@, z, now)]
         /\ last' = FieldRecord("update_health", mac)
    /\ nfix' = nfix + 1
    /\ UNCHANGED <<anchors_initialized, published, kalVars, pureVars, anchorVars,
                   lockVars, procVars>>

NextField == FieldUpdateParameters \/ FieldUpdateHealth

SpecField == InitOrch /\ [][NextField]_vars

\* ------------------------------------------------------------------------
\* Properties
\* ------------------------------------------------------------------------

\* The strongest reading of an RSSI map.
Strongest(rssi) ==
    CHOOSE v \in {rssi[k] : k \in DOMAIN rssi} : \A k \in DOMAIN rssi : FLe(rssi[k], v)

\* The candidates of a call that have a reading, lie within 10 dB (written 10
\* here, as the claim states it) of the strongest reading of all, and have
\* ewma strictly below 8.
Eligible(reg, rssi, anch_list) ==
    {mac \in SeqRange(anch_list) :
        /\ mac \in DOMAIN rssi
        /\ FLe(FSub(Strongest(rssi), FInt(10)), rssi[mac])
        /\ FLt(reg[mac].ewma, FInt(8))}

Min(a, b) == IF a <= b THEN a ELSE b

FixTau(mac) ==
    IF last.pre[mac].last_seen # FZero
    THEN FSub(last.fix.ts, last.pre[mac].last_seen)
    ELSE FZero

FixDelta(mac) == FSub(Strongest(last.fix.used), last.fix.used[mac])

HealthCalled(mac) ==
    \E i \in DOMAIN last.calls : last.calls[i] = [op |-> "update_health", mac |-> mac]

\* C2: within one fix every anchor on which update_health is called had
\* update_parameters called on it earlier, and no update_health call comes
\* before an update_parameters call of any anchor.
InvC2 ==
    \A j \in DOMAIN last.calls :
        last.calls[j].op = "update_health" =>
            /\ \E i \in 1..(j - 1) :
                   last.calls[i] = [op |-> "update_parameters", mac |-> last.calls[j].mac]
            /\ \A i \in DOMAIN last.calls :
                   i > j => last.calls[i].op # "update_parameters"

\* A fix in which two anchors are health-updated.
WitC2 ==
    \E i, j \in DOMAIN last.calls :
        /\ i < j
        /\ last.calls[i].op = "update_health"
        /\ last.calls[j].op = "update_health"
        /\ last.calls[i].mac # last.calls[j].mac

\* C3: for every anchor of the z map, update_health is called if and only
\* if tau <= 6000 ms and Delta <= 12 dB, tau being now - last_seen when
\* last_seen # 0 and 0 otherwise, Delta the strongest reading of the fix minus
\* the anchor's.
InvC3 ==
    ~last.fix.none =>
        \A mac \in last.zkeys :
            HealthCalled(mac) <=> (/\ FLe(FixTau(mac), FInt(6000))
                                   /\ FLe(FixDelta(mac), FInt(12)))

\* A fix stamped later than 6000 ms that health-updates an anchor whose
\* last_seen is 0 and refuses one last seen more than 6000 ms before.
WitC3 ==
    /\ ~last.fix.none
    /\ FGt(last.fix.ts, FInt(6000))
    /\ \E m1, m2 \in last.zkeys :
          /\ last.pre[m1].last_seen = FZero
          /\ HealthCalled(m1)
          /\ FGt(FixTau(m2), FInt(6000))
          /\ ~HealthCalled(m2)

\* An anchor heard in the last fix that fails an admission gate.
GateFails(mac) ==
    \/ FGt(FixTau(mac), FInt(6000))
    \/ FGt(FixDelta(mac), FInt(12))

\* C4 as stated: an anchor that is absent from the RSSI map of the fix or
\* fails a gate has rssi0, n, ewma, last_seen and its Kalman state unchanged
\* by the fix.
OrigC4 ==
    ~last.fix.none =>
        \A mac \in DOMAIN last.pre :
            (mac \notin DOMAIN last.fix.used \/ GateFails(mac)) =>
                anchors[mac] = last.pre[mac]

\* C4, amended: an anchor that is absent from the RSSI map of the fix or
\* fails a gate has ewma and last_seen unchanged by the fix; its rssi0, n and
\* Kalman state are unchanged as well unless it is one of the significant
\* anchors of the fix, whose parameters are updated before the gates apply.
InvC4 ==
    ~last.fix.none =>
        \A mac \in DOMAIN last.pre :
            (mac \notin DOMAIN last.fix.used \/ GateFails(mac)) =>
                /\ anchors[mac].ewma = last.pre[mac].ewma
                /\ anchors[mac].last_seen = last.pre[mac].last_seen
                /\ mac \notin last.sig => anchors[mac] = last.pre[mac]

\* A fix with a significant anchor that fails the time gate, its parameters
\* moved by the fix, and a registered anchor the fix does not hear.
WitC4 ==
    /\ ~last.fix.none
    /\ \E mac \in last.sig :
          /\ GateFails(mac)
          /\ anchors[mac].kalman # last.pre[mac].kalman
          /\ anchors[mac].ewma = last.pre[mac].ewma
    /\ \E mac \in DOMAIN last.pre : mac \notin DOMAIN last.fix.used

\* C5: a registered anchor heard in a fix with ewma >= 8 before the fix is
\* not in the significant set of the fix, and the message published for the
\* fix lists it in faulty_anchors.
InvC5 ==
    ~last.fix.none =>
        \A mac \in DOMAIN last.fix.used \cap DOMAIN last.pre :
            FGe(last.pre[mac].ewma, FInt(8)) =>
                /\ mac \notin last.sig
                /\ ~published.none
                /\ mac \in published.faulty_anchors

\* A fix that hears an anchor of ewma >= 8 and is scored on another anchor.
WitC5 ==
    /\ ~last.fix.none
    /\ \E mac \in DOMAIN last.fix.used \cap DOMAIN last.pre :
          FGe(last.pre[mac].ewma, FInt(8))
    /\ last.sig # {}

\* The anchors listed in anchors_selected_for_estimation of the message.
Listed == {e.mac : e \in published.anchors_selected_for_estimation}

\* C6: anchors_selected_for_estimation of a published message lists exactly
\* the significant anchors of the fix.
InvC6 == ~published.none => Listed = last.sig

\* C7: in a published message warning_anchors holds exactly the listed
\* anchors with 4 <= ewma < 8 and faulty_anchors exactly those with
\* ewma >= 8, on the anchors as the fix leaves them; no anchor is in both.
InvC7 ==
    ~published.none =>
        /\ published.warning_anchors =
               {mac \in Listed : /\ FLe(FInt(4), anchors[mac].ewma)
                                 /\ FLt(anchors[mac].ewma, FInt(8))}
        /\ published.faulty_anchors =
               {mac \in Listed : FLe(FInt(8), anchors[mac].ewma)}
        /\ published.warning_anchors \cap published.faulty_anchors = {}

\* A message that lists as faulty an anchor whose ewma was below 8 when the
\* fix arrived.
WitC7 ==
    /\ ~published.none
    /\ \E mac \in published.faulty_anchors : FLt(last.pre[mac].ewma, FInt(8))

\* C8: with no significant anchor (no candidate, or every candidate filtered
\* out) confidence_score returns 0 and error_radius returns 7.4.
InvC8 ==
    (/\ pcall.fn \in {"confidence_score", "error_radius"}
     /\ Eligible(pin.reg, pin.tag.rssi_readings, pin.anch_list) = {}) =>
        /\ pcall.fn = "confidence_score" => pcall.result.zero
        /\ pcall.fn = "error_radius" => pcall.result.radius = Rat(74, 10)

\* error_radius called with candidates that have readings, all filtered out.
WitC8 ==
    /\ pcall.fn = "error_radius"
    /\ pin.anch_list # << >>
    /\ SeqRange(pin.anch_list) \subseteq DOMAIN pin.tag.rssi_readings
    /\ Eligible(pin.reg, pin.tag.rssi_readings, pin.anch_list) = {}
    /\ pcall.result.radius = Rat(74, 10)

\* The table of the claim C9, in hundredths (confidence) and tenths (radius).
C9Knots == << <<5, 74>>, <<17, 61>>, <<43, 43>>, <<80, 25>>,
              <<85, 20>>, <<90, 16>>, <<95, 12>>, <<98, 9>> >>

C9X(i) == Rat(C9Knots[i][1], 100)

C9Y(i) == Rat(C9Knots[i][2], 10)

InvC10 ==
    (/\ kret.steps > 0
     /\ IsFinite(kret.RSSI0_i) /\ IsFinite(kret.n_i)
     /\ IsFinite(kret.r_val) /\ IsFinite(kret.d_val)) =>
        /\ IsFinite(kret.RSSI0)
        /\ IsFinite(kret.n)
        /\ ~IsZero(kret.S)

\* C11: after any Anchor::update_parameters call the anchor's rssi0 is
\* non-positive and its n is strictly positive.
InvC11 ==
    acall.fn = "update_parameters" =>
        /\ FLe(anc.RSSI_0, FZero)
        /\ FGt(anc.n, FZero)

\* C12: an anchor's last_seen is 0 from its creation until its first health
\* update and otherwise the timestamp of the most recent fix that
\* health-updated it: an anchor the fix registered entered the fix with
\* last_seen 0, the fix leaves last_seen at its timestamp on the anchors it
\* health-updates and untouched on the others, and an anchor of the z map
\* that the fix registered is health-updated whenever Delta <= 12 dB.
InvC12 ==
    ~last.fix.none =>
        /\ \A mac \in DOMAIN last.pre \ DOMAIN last.before :
               last.pre[mac].last_seen = FZero
        /\ \A mac \in DOMAIN anchors :
               anchors[mac].last_seen =
                   IF HealthCalled(mac) THEN last.fix.ts ELSE last.pre[mac].last_seen
        /\ \A mac \in last.zkeys \ DOMAIN last.before :
               FLe(FixDelta(mac), FInt(12)) => HealthCalled(mac)

\* C13: the registry never evicts: every anchor registered when a message
\* arrives is in the registry the handler works on, as the same object (its
\* coordinate and accumulated state as the message before left them), and is
\* still registered, at the same coordinate, when the handler returns.
InvC13 ==
    ~last.fix.none =>
        \A mac \in DOMAIN last.before :
            /\ mac \in DOMAIN last.pre
            /\ last.pre[mac] = last.before[mac]
            /\ mac \in DOMAIN anchors
            /\ anchors[mac].coord = last.before[mac].coord

\* A message that does not mention a registered anchor whose state earlier
\* fixes have moved, and registers another anchor.
WitC13 ==
    /\ ~last.fix.none
    /\ \E mac \in DOMAIN last.before :
          /\ mac \notin extract_anchor_macs_from_message(last.fix)
          /\ last.before[mac].kalman # KalmanInit
          /\ anchors[mac] = last.before[mac]
    /\ DOMAIN anchors # DOMAIN last.before

\* C14: the first fix processed registers every mac of used_anchors and of
\* unused_anchors whose configuration resolves, and nothing else; a later fix
\* adds to the registry exactly the unknown macs of its RSSI map that resolve:
\* a mac that appears only in unused_anchors is not registered, and a fix
\* whose RSSI map holds no unknown mac enters the candidate loop's end with
\* the registry it found.
InvC14 ==
    ~last.fix.none =>
        /\ DOMAIN anchors = DOMAIN last.pre
        /\ last.first =>
               /\ extract_anchor_macs_from_message(last.fix) \ last.unres
                      \subseteq DOMAIN last.pre
               /\ DOMAIN last.pre \subseteq extract_anchor_macs_from_message(last.fix)
        /\ ~last.first =>
               /\ DOMAIN last.pre =
                      DOMAIN last.before \cup (DOMAIN last.fix.used \ last.unres_loop)
               /\ DOMAIN last.fix.used \subseteq DOMAIN last.before =>
                      last.pre = last.before

\* A later fix that registers an unknown mac of its RSSI map while an unknown
\* mac of its unused_anchors stays out of the registry.
WitC14 ==
    /\ ~last.fix.none /\ ~last.first
    /\ \E mac \in DOMAIN last.fix.used : mac \notin DOMAIN last.before /\ mac \in DOMAIN anchors
    /\ \E mac \in last.fix.unused : mac \notin DOMAIN last.before /\ mac \notin DOMAIN anchors

\* The macs for which a configuration request of the last fix failed.
FailedResolution ==
    (IF last.first THEN last.unres ELSE {}) \cup last.unres_loop

\* C15: a mac whose configuration request fails during a fix is not in the
\* registry and not in the candidate list of that fix; the other macs of the
\* RSSI map are processed all the same (a registered or resolvable one is a
\* candidate), and an unregistered mac that appears in the RSSI map of a
\* later fix is requested again: it is registered, and a candidate, when the
\* request succeeds.
InvC15 ==
    ~last.fix.none =>
        /\ \A mac \in FailedResolution :
               mac \notin DOMAIN anchors /\ mac \notin last.cand
        /\ \A mac \in DOMAIN last.fix.used \ FailedResolution :
               mac \in DOMAIN anchors /\ mac \in last.cand
        /\ \A mac \in DOMAIN last.fix.used \ DOMAIN last.before :
               (~last.first /\ mac \notin last.unres_loop) =>
                   mac \in DOMAIN anchors /\ mac \in last.cand

\* What on_message, run alone on the shared state thread t found when it took
\* the mutex, does with the message of t.
Alone(t) ==
    on_message(cb[t].snap.anchors, cb[t].snap.anchors_initialized, cb[t].msg,
               {}, {}, LockWall, cb[t].ord)

\* The threads inside the locked part of on_message.
Inside == {t \in LockThreads : cb[t].pc \notin {"idle", "lock"}}

\* C16: message handling is serialized by anchor_mutex: at most one thread is
\* inside the locked part of on_message, it is the holder of the mutex, and
\* at each point of its fix the registry, the error estimate it holds and the
\* message it published are those of on_message run alone on the state it
\* found when it took the lock: no other callback's reads or writes fall
\* between its selection, scoring, updates and publish.
InvC16 ==
    /\ Cardinality(Inside) <= 1
    /\ \A t \in Inside :
          /\ mutex = t
          /\ cb[t].pc = "candidates" =>
                 /\ anchors = cb[t].snap.anchors
                 /\ anchors_initialized = cb[t].snap.anchors_initialized
          /\ cb[t].pc = "score" => anchors = Alone(t).last.pre
          /\ cb[t].pc = "update" =>
                 /\ anchors = Alone(t).last.pre
                 /\ cb[t].error_estimate = Alone(t).published.error_estimate
          /\ cb[t].pc = "publish" => anchors = Alone(t).anchors
          /\ cb[t].pc = "return" =>
                 /\ anchors = Alone(t).anchors
                 /\ cb[t].out = Alone(t).published
                 /\ ~cb[t].out.none => published = cb[t].out

\* A callback waits for the mutex while another, which found anchors that an
\* earlier fix had updated, has published and not yet returned.
WitC16 ==
    \E t \in LockThreads, u \in LockThreads :
        /\ cb[t].pc = "return" /\ ~cb[t].out.none
        /\ cb[t].snap.anchors # << >>
        /\ anchors # cb[t].snap.anchors
        /\ cb[u].pc = "lock"

\* C17: a payload that does not decode (malformed JSON, or tag.mac, a
\* position coordinate, an anchor's rssi or the timestamp absent or of the
\* wrong type) drops the fix: nothing is published, every anchor registered
\* when the message arrived is still registered with the state it had
\* (rssi0, n, ewma, last_seen, Kalman state), and the process goes on
\* handling messages.
InvC17 ==
    last.defect # "none" =>
        /\ published = NoMessage
        /\ \A mac \in DOMAIN last.before :
               mac \in DOMAIN anchors /\ anchors[mac] = last.before[mac]
        /\ alive

\* The last step was an update_health call of a stream of the given kind.
HealthCall(stream) == acall.fn = "update_health" /\ acall.stream = stream

\* The streams in which every z has z^2 > 8.
AboveEight == {stream \in HealthStreams :
                  \A z \in HealthZ(stream) : FGt(FSq(z), FInt(8))}

EvaluatorZ(mac) ==
    (CHOOSE t \in published.error_estimate.terms : t[1] = mac)[2]

\* The z-score of the last fix's reading of an anchor under the (rssi0, n)
\* the anchor has when the handler returns, those its update_parameters call
\* left.
UpdatedZ(mac) ==
    PathLossZ(last.fix.used[mac], anchors[mac].RSSI_0, anchors[mac].n,
              R3_distance(anchors[mac].coord, last.fix.pos))

\* C19, as stated: the z that update_anchors_from_tag_data passes to
\* update_health for an anchor is the z the evaluator used for the same fix,
\* computed from the (rssi0, n) the anchor had before the fix's
\* update_parameters call.
OrigC19 ==
    ~last.fix.none =>
        \A mac \in DOMAIN anchors :
            HealthCalled(mac) =>
                /\ last.zvals[mac] = EvaluatorZ(mac)
                /\ anchors[mac].ewma =
                       update_health(last.pre[mac], EvaluatorZ(mac), last.fix.ts).ewma

\* C19, amended: the z that update_anchors_from_tag_data passes to
\* update_health for an anchor is computed after the parameter loop, from the
\* (rssi0, n) this fix's update_parameters call left in the anchor, and the
\* anchor's new ewma is the one update_health makes of that z.
InvC19 ==
    ~last.fix.none =>
        \A mac \in DOMAIN anchors :
            HealthCalled(mac) =>
                /\ last.zvals[mac] = UpdatedZ(mac)
                /\ anchors[mac].ewma =
                       update_health(last.pre[mac], UpdatedZ(mac), last.fix.ts).ewma

\* A fix in which update_health was given a z that is not the evaluator's.
WitC19 ==
    /\ ~last.fix.none
    /\ \E mac \in DOMAIN anchors :
          /\ HealthCalled(mac)
          /\ last.zvals[mac] # EvaluatorZ(mac)
          /\ anchors[mac].ewma #
                 update_health(last.pre[mac], EvaluatorZ(mac), last.fix.ts).ewma

\* C20: the measurement-noise sigma of the filter is strictly positive after
\* every sequence_step: a window of equal RSSI values (stddev 0) does not set
\* it to zero.
InvC20 ==
    kret.steps > 0 => FGt(kf.sigma, FZero)

\* The run so far is one fix replayed, a fix whose RSSI is exactly what the
\* path-loss model predicts for the fresh anchor (its first z was 0).
ExactReplay ==
    /\ acall.fn = "fix"
    /\ acall.replay
    /\ DOMAIN acall.first.z = {"a1"}
    /\ IsZero(acall.first.z["a1"])

\* C21: on every replay of a fix that matches the model exactly the
\* evaluator's z is 0, the ewma is not above the ewma the replay found, and
\* the anchor's rssi0 and n are finite.
InvC21 ==
    ExactReplay =>
        /\ DOMAIN acall.z = {"a1"}
        /\ IsZero(acall.z["a1"])
        /\ FLe(anc.ewma, acall.anc0.ewma)
        /\ IsFinite(anc.RSSI_0)
        /\ IsFinite(anc.n)

\* The last `count` entries of a sequence, in order.
LastOf(sq, count) == SubSeq(sq, Len(sq) - count + 1, Len(sq))

\* min(k, 50)
WindowFill == IF kret.steps < max_buffer THEN kret.steps ELSE max_buffer

\* C22: after k calls on a fresh filter each window holds exactly
\* min(k, 50) entries, the most recent measurements (residuals) in arrival
\* order, and the two windows have equal length.
InvC22 ==
    /\ Len(kf.rssi_vals) = WindowFill
    /\ Len(kf.residuals) = WindowFill
    /\ kf.rssi_vals = LastOf(kret.arrived, WindowFill)
    /\ kf.residuals = LastOf(kret.resids, WindowFill)
    /\ Len(kf.rssi_vals) = Len(kf.residuals)

\* A window has overflowed: more calls than max_buffer, and the oldest
\* measurement that arrived differs from the oldest one kept.
WitC22 ==
    /\ kret.steps > max_buffer
    /\ kret.arrived[1] # kf.rssi_vals[1]

\* Q was recomputed by the last call: the residual window the call found
\* held min_required_points residuals.
QAdapted == kret.steps > 0 /\ Len(kret.kf0.residuals) >= min_required_points

\* |a - b| <= |b| / 256: equal up to the rounding of a few float operations.
FNear(a, b) ==
    \/ FEq(a, b)
    \/ FLe(FMul(FInt(256), FSub(a, b)), b) /\ FLe(FMul(FInt(256), FSub(b, a)), b)

\* C23: after each of the first four calls on a fresh filter Q[0][0],
\* Q[1][1] and sigma have their initial values; after every call that
\* recomputed Q, Q[1][1] is Q[0][0] / 100 (up to rounding).
InvC23 ==
    /\ kret.steps \in 1..(min_required_points - 1) =>
           /\ kf.Q00 = KalmanInit.Q00
           /\ kf.Q11 = KalmanInit.Q11
           /\ kf.sigma = KalmanInit.sigma
    /\ QAdapted => FNear(kf.Q11, FDiv(kf.Q00, FInt(100)))

\* The callback on thread t has published its result.
HasPublished(t) == cb[t].out # NoMessage

\* The callback on thread t has resolved anchor coordinates: it is past the
\* discovery and the candidate loop, and the registry holds anchors it did
\* not hold when the callback took the mutex.
HasResolved(t) ==
    /\ cb[t].pc \in {"score", "update", "publish", "return"}
    /\ DOMAIN anchors # DOMAIN cb[t].snap.anchors

\* C24: a callback that has published or has resolved anchor coordinates
\* did so outside the critical section: it does not hold anchor_mutex.
InvC24 ==
    \A t \in LockThreads : (HasPublished(t) \/ HasResolved(t)) => mutex # t

CalledOn(op, mac) ==
    \E i \in DOMAIN last.calls : last.calls[i] = [op |-> op, mac |-> mac]

\* C26: an anchor whose ewma was >= 8 when a call of
\* update_anchors_from_tag_data began is not in the significant set of that
\* call and comes out of it with every field unchanged, still faulty.
InvC26 ==
    last.op = "update_anchors_from_tag_data" =>
        \A mac \in AnchorIds :
            is_faulty(last.pre[mac]) =>
                /\ mac \notin last.sig
                /\ anchors[mac] = last.pre[mac]
                /\ is_faulty(anchors[mac])

\* A fix heard an anchor that an earlier fix had left faulty.
WitC26 ==
    /\ last.op = "update_anchors_from_tag_data"
    /\ \E mac \in DOMAIN last.rssi : is_faulty(last.pre[mac])

\* C27: an anchor that failed the visibility test in an earlier fix, with
\* no fix timestamp going back since, fails it in this fix too and keeps its
\* ewma and last_seen, and update_parameters is applied to it when it is
\* significant.
InvC27 ==
    last.op = "update_anchors_from_tag_data" =>
        \A mac \in last.held :
            /\ VisibilityFails(last.pre[mac], last.now, DEFAULT_T_VIS)
            /\ anchors[mac].ewma = last.pre[mac].ewma
            /\ anchors[mac].last_seen = last.pre[mac].last_seen
            /\ ~CalledOn("update_health", mac)
            /\ mac \in last.sig => CalledOn("update_parameters", mac)

\* A locked-out anchor was significant in a later fix: it was in the z map
\* and its parameters were updated.
WitC27 ==
    /\ last.op = "update_anchors_from_tag_data"
    /\ \E mac \in last.held :
         /\ mac \in last.zkeys
         /\ anchors[mac].kalman # last.pre[mac].kalman

\* C28: every anchor of the z map of a fix has r_max - r_obs <= 10, and
\* 10 <= DeltaR; an anchor of the z map that got no health update failed the
\* visibility test.
InvC28 ==
    last.op = "update_anchors_from_tag_data" =>
        \A mac \in last.zkeys :
            /\ FLe(FSub(MaxRssi(last.rssi), last.rssi[mac]), FInt(10))
            /\ FLe(FInt(10), DEFAULT_DELTA_R)
            /\ ~CalledOn("update_health", mac) =>
                   VisibilityFails(last.pre[mac], last.now, DEFAULT_T_VIS)

\* A fix whose z map holds an anchor 10 dB below the strongest reading, and
\* an anchor whose health update was rejected.
WitC28 ==
    /\ last.op = "update_anchors_from_tag_data"
    /\ \E mac \in last.zkeys :
         FSub(MaxRssi(last.rssi), last.rssi[mac]) = FInt(10)
    /\ \E mac \in last.zkeys : ~CalledOn("update_health", mac)

\* The variance of the residuals the last call found in the window (the
\* window has not overflowed: its last entry is the call's own residual).
FoundResidVar ==
    computeResidualVariance(SubSeq(kf.residuals, 1, Len(kf.residuals) - 1))

\* C29: on a fresh filter sigma keeps its initial value through the first
\* four calls and is beta * stddev of the RSSI window after the fifth, while
\* Q[0][0] and Q[1][1] keep their initial values through the first five
\* calls and are recomputed from the residual variance by the sixth.
InvC29 ==
    /\ kret.steps \in 1..(min_required_points - 1) =>
           kf.sigma = KalmanInit.sigma
    /\ kret.steps = min_required_points =>
           kf.sigma = FMul(beta, computeRSSIStdDev(kf.rssi_vals))
    /\ kret.steps \in 1..min_required_points =>
           kf.Q00 = KalmanInit.Q00 /\ kf.Q11 = KalmanInit.Q11
    /\ kret.steps = min_required_points + 1 =>
           /\ kf.Q00 = FMul(alpha, FoundResidVar)
           /\ kf.Q11 = FMul(alpha, FDiv(FoundResidVar, FInt(100)))

\* Five calls made: sigma has been recomputed to a new value, Q not yet.
WitC29 ==
    /\ kret.steps = min_required_points
    /\ kf.sigma # KalmanInit.sigma
    /\ kf.Q00 = KalmanInit.Q00

\* The anchors other than the one the last call was made on are as the
\* call found them, and no anchor was added or removed.
OthersUntouched ==
    /\ DOMAIN anchors = DOMAIN last.pre
    /\ \A other \in DOMAIN anchors \ {last.mac} : anchors[other] = last.pre[other]

\* C30: update_parameters leaves the anchor's ewma, last_seen and coord
\* unchanged, update_health leaves its rssi0, n, Kalman state and coord
\* unchanged, and neither changes another anchor.
InvC30 ==
    /\ last.op = "update_parameters" =>
           /\ anchors[last.mac].ewma = last.pre[last.mac].ewma
           /\ anchors[last.mac].last_seen = last.pre[last.mac].last_seen
           /\ anchors[last.mac].coord = last.pre[last.mac].coord
           /\ OthersUntouched
    /\ last.op = "update_health" =>
           /\ anchors[last.mac].RSSI_0 = last.pre[last.mac].RSSI_0
           /\ anchors[last.mac].n = last.pre[last.mac].n
           /\ anchors[last.mac].kalman = last.pre[last.mac].kalman
           /\ anchors[last.mac].coord = last.pre[last.mac].coord
           /\ OthersUntouched

\* update_health changed the ewma and last_seen of an anchor whose
\* parameters an earlier update_parameters call had changed.
WitC30 ==
    /\ last.op = "update_health"
    /\ anchors[last.mac].ewma # last.pre[last.mac].ewma
    /\ anchors[last.mac].last_seen # last.pre[last.mac].last_seen
    /\ anchors[last.mac].RSSI_0 # FInt(-59)
    /\ anchors[last.mac].kalman # KalmanInit

====
